---------------------------- MODULE Spec2Model ----------------------------
(***************************************************************************)
(* Menstrual-cycle tracker: the broker integration layer and the          *)
(* analytics / notification choreography.                                  *)
(*                                                                         *)
(* Dates are day numbers.  A nullable column is <<>> (NULL) or <<v>>.      *)
(* Float columns are exact rationals held as scaled integers: an average   *)
(* of at most 6 integers times AvgScale, a population variance of at most  *)
(* 6 integers times VarScale.  A confidence score is held in hundredths.   *)
(* The stores are PostgreSQL at READ COMMITTED: a session's writes are     *)
(* pending until its commit, and every query reads the committed rows     *)
(* overlaid with the session's own pending writes (autoflush).             *)
(***************************************************************************)
EXTENDS Integers, Sequences, FiniteSets, TLC

\* ------------------------------------------------------------------ bounds
MaxEvents == 3
MaxManual == 1
MaxForeign == 1
MaxRequests == 3
MaxPublishCalls == 2
MaxStops == 1
MaxReminderEvents == 2
MaxUpdates == 1
MaxHistory == 7
MaxSweeps == 2
MaxWork == 4
MaxCreates == 4
MaxCycleRequests == 2

\* --------------------------------------------------------------- constants
DEFAULT_CYCLE_LENGTH == 28
limit == 6
max_retries == 5
AvgScale == 60
VarScale == 3600

\* ------------------------------------------------------------------ values
None == <<>>
Some(v) == <<v>>
Val(o) == o[1]

Users == {1, 2}
Cycles == {1, 2, 3}
\* The cycle-tracking store fixes a cycle's owner and start date at creation.
CycleUser(c) == IF c = 3 THEN 2 ELSE 1
CycleStart(c) == IF c = 1 THEN 0 ELSE IF c = 2 THEN 30 ELSE 7
PeriodDays == 4

AnalyticsConsumers == {"c1"}
\* The analytics service scaled to two instances, each with its own consumer.
ConsumerInstances == {"c1", "c2"}
GenerateWorkers == {"r1"}
NotificationConsumers == {"n1"}
TrackingWorkers == {"t1"}
Workers ==
  ConsumerInstances \cup GenerateWorkers \cup NotificationConsumers \cup TrackingWorkers
MaxPredictionEvents == MaxEvents + MaxManual + MaxForeign

VARIABLES
  cycle_analytics,   \* committed rows of table cycle_analytics
  predictions,       \* committed rows of table predictions
  cycle_queue,       \* ready messages of queue analytics_cycle_queue
  prediction_queue,  \* ready messages of queue notification_prediction_queue
  published,         \* number of cycle events handed to the broker so far
  pred_published,    \* number of prediction events handed to the broker so far
  settled,           \* per cycle message id: the settlements the broker received
  deliveries,        \* per cycle message id: how often the broker delivered it
  manual,            \* number of POST /predictions/generate requests so far
  pc,                \* each worker's position
  cur,               \* the delivery an analytics consumer is handling
  req,               \* the user of the request a generate worker is serving
  obj,               \* the session's CycleAnalytics object (pending write)
  orig,              \* that object as loaded (to know the changed columns)
  deact,             \* ids the session's UPDATE set is_active = false on
  newPred,           \* the session's new Prediction object
  outcome,           \* the status of the response a request worker sent last
  trail,             \* what the handler did for its current delivery, in order
  before,            \* cycle_analytics when the current delivery arrived
  prevMsg,           \* body of the delivery the consumer acknowledged last
  notification_preferences,  \* committed rows of table notification_preferences
  notifications,     \* committed rows of table notifications
  pred_settled,      \* per prediction message id: the settlements received
  pred_deliveries,   \* per prediction message id: how often it was delivered
  foreign,           \* prediction events handed to the broker by other clients
  conn,              \* each broker client's _connect: where it stands
  attempts,          \* each _connect: connection attempts made
  sleeps,            \* each _connect: time.sleep(retry_delay) calls made
  app,               \* notification service: where create_app stands
  consumer_thread,   \* notification service: the consumer thread was started
  cycles,            \* committed rows of table cycles
  symptoms,          \* committed rows of table symptoms
  publisher,         \* cycle-tracking service: the global publisher instance
  requests,          \* number of cycle-tracking requests so far
  treq,              \* the request a cycle-tracking worker is serving
  pub_connection,    \* each publisher's self.connection
  pub_call,          \* each publisher's publish call in progress
  pub_accepted,      \* messages the broker accepted from each publisher
  pub_calls,         \* publish calls each publisher has returned from
  stops,             \* times a consumer process has stopped
  updates,           \* number of PUT /preferences requests so far
  engine,            \* what the prediction engine returned last
  today,             \* the date of the notification service's clock
  sweeps,            \* runs of process_pending_notifications started so far
  sweep,             \* each run of process_pending_notifications in progress
  abandoned,         \* open broker connections of publishers the callback dropped
  shared             \* the module global publisher of the cycle-tracking service and the request workers using it

vars == <<cycle_analytics, predictions, cycle_queue, prediction_queue, published,
          pred_published, settled, deliveries, manual, pc, cur, req, obj, orig,
          deact, newPred, outcome, trail, before, prevMsg,
          notification_preferences, notifications, pred_settled, pred_deliveries,
          foreign, conn, attempts, sleeps, app, consumer_thread, cycles, symptoms,
          publisher, requests, treq, pub_connection, pub_call, pub_accepted,
          pub_calls, stops, updates, engine, today, sweeps, sweep, abandoned,
          shared>>

NoMsg == [id |-> 0, kind |-> "none", cycle_id |-> 0, user_id |-> 0,
          start_date |-> None, end_date |-> None]
NoObj == [id |-> -1]
NoPred == [id |-> -1]

\* ------------------------------------------------------- prediction engine
RECURSIVE SumLen(_)
SumLen(rows) ==
  IF rows = {} THEN 0
  ELSE LET r == CHOOSE x \in rows : TRUE
       IN Val(r.cycle_length) + SumLen(rows \ {r})

RECURSIVE SumSq(_)
SumSq(rows) ==
  IF rows = {} THEN 0
  ELSE LET r == CHOOSE x \in rows : TRUE
       IN Val(r.cycle_length) * Val(r.cycle_length) + SumSq(rows \ {r})

Min(a, b) == IF a < b THEN a ELSE b

\* .order_by(start_date.desc()).limit(n): some n rows none of which starts
\* before a row left out.
Latest(rows, n) ==
  IF Cardinality(rows) <= n THEN rows
  ELSE CHOOSE s \in SUBSET rows :
         /\ Cardinality(s) = n
         /\ \A a \in s, b \in rows \ s : a.start_date >= b.start_date

WithLengthUnlimited(rows, user_id) ==
  {r \in rows : r.user_id = user_id /\ r.cycle_length # None}

WithLength(rows, user_id) ==
  Latest({r \in rows : r.user_id = user_id /\ r.cycle_length # None}, limit)

calculate_average_cycle_length(rows, user_id) ==
  LET analytics == WithLength(rows, user_id)
  IN IF analytics = {} THEN DEFAULT_CYCLE_LENGTH * AvgScale
     ELSE (SumLen(analytics) * AvgScale) \div Cardinality(analytics)

calculate_sample_variance(rows, user_id) ==
  LET analytics == WithLength(rows, user_id)
      n == Cardinality(analytics)
  IN IF n < 2 THEN 0
     ELSE ((n * SumSq(analytics) - SumLen(analytics) * SumLen(analytics)) * VarScale)
            \div (n * (n - 1))

calculate_cycle_variance(rows, user_id) ==
  LET analytics == WithLength(rows, user_id)
      n == Cardinality(analytics)
  IN IF n < 2 THEN 0
     ELSE ((n * SumSq(analytics) - SumLen(analytics) * SumLen(analytics)) * VarScale)
            \div (n * n)

ConfidenceInTwoBands(variance) ==
  IF variance < 5 * VarScale THEN 90
  ELSE 60

Confidence(variance) ==
  IF variance < 2 * VarScale THEN 90
  ELSE IF variance < 5 * VarScale THEN 75
  ELSE 60

UserRows(rows, user_id) == {r \in rows : r.user_id = user_id}

\* The Prediction object predict_next_period builds; NoPred when the user has no row.
predict_with_default_length(rows, user_id) ==
  LET mine == UserRows(rows, user_id)
  IN IF mine = {} THEN NoPred
     ELSE LET latest_analytics == CHOOSE r \in mine :
                                    \A o \in mine : o.start_date <= r.start_date
              avg_cycle_length == calculate_average_cycle_length(rows, user_id)
              variance == calculate_cycle_variance(rows, user_id)
          IN [id |-> 0,
              user_id |-> user_id,
              predicted_start_date |->
                latest_analytics.start_date + DEFAULT_CYCLE_LENGTH,
              confidence_score |-> Confidence(variance),
              based_on_cycles |-> Min(Cardinality(mine), limit),
              is_active |-> TRUE]

predict_next_period(rows, user_id) ==
  LET mine == UserRows(rows, user_id)
  IN IF mine = {} THEN NoPred
     ELSE LET latest_analytics == CHOOSE r \in mine :
                                    \A o \in mine : o.start_date <= r.start_date
              avg_cycle_length == calculate_average_cycle_length(rows, user_id)
              variance == calculate_cycle_variance(rows, user_id)
          IN [id |-> 0,
              user_id |-> user_id,
              predicted_start_date |->
                latest_analytics.start_date + (avg_cycle_length \div AvgScale),
              confidence_score |-> Confidence(variance),
              based_on_cycles |-> Min(Cardinality(mine), limit),
              is_active |-> TRUE]

\* ------------------------------------------------------------ the session
\* What a query reads in a session holding the flushed object o: the
\* committed rows, with o in place of (or added to) them.
VisibleWith(rows, o) ==
  IF o = NoObj THEN rows ELSE {r \in rows : r.id # o.id} \cup {o}

Visible(w) == VisibleWith(cycle_analytics, obj[w])

Columns == {"end_date", "period_length", "cycle_length", "is_regular",
            "average_cycle_length", "cycle_variance"}

\* The UPDATE a flush emits sets the columns the session changed, on the row
\* as committed by then.
Merge(row, o, loaded) ==
  [f \in DOMAIN row |->
     IF f \in Columns /\ o[f] # loaded[f] THEN o[f] ELSE row[f]]

\* db.session.commit() of the CycleAnalytics object: INSERT of a new row (the
\* sequence gives the next id) or UPDATE of the loaded one.
CommitRowWithoutAdd(rows, o, loaded) ==
  IF o.id = 0
  THEN rows
  ELSE {IF r.id = o.id THEN Merge(r, o, loaded) ELSE r : r \in rows}

CommitRow(rows, o, loaded) ==
  IF o.id = 0
  THEN rows \cup {[o EXCEPT !.id = Cardinality(rows) + 1]}
  ELSE {IF r.id = o.id THEN Merge(r, o, loaded) ELSE r : r \in rows}

\* Prediction.query.filter_by(user_id, is_active=True).update({is_active: False})
ActiveIdsOfOtherUsers(preds, user_id) ==
  {p.id : p \in {q \in preds : q.user_id # user_id /\ q.is_active}}

ActiveIds(preds, user_id) ==
  {p.id : p \in {q \in preds : q.user_id = user_id /\ q.is_active}}

\* db.session.add(prediction); db.session.commit(): the pending UPDATE and the
\* INSERT become visible together.
CommitPredictionRows(preds, ids, p) ==
  {IF q.id \in ids THEN [q EXCEPT !.is_active = FALSE] ELSE q : q \in preds}
    \cup {[p EXCEPT !.id = Cardinality(preds) + 1]}


\* -------------------------------------------------------------- topology
\* Routing keys as their words: 'cycle.new' is <<"cycle", "new">>.
TrackingConfig ==
  [CYCLE_EXCHANGE |-> "cycle_events", CYCLE_ROUTING_KEY |-> <<"cycle", "new">>]

AnalyticsConfig ==
  [CYCLE_EXCHANGE |-> "cycle_events", CYCLE_QUEUE |-> "analytics_cycle_queue",
   CYCLE_ROUTING_KEY |-> <<"cycle", "#">>,
   PREDICTION_EXCHANGE |-> "prediction_events",
   PREDICTION_ROUTING_KEY |-> <<"prediction", "new">>]

NotificationConfig ==
  [PREDICTION_EXCHANGE |-> "prediction_events",
   PREDICTION_QUEUE |-> "notification_prediction_queue",
   PREDICTION_ROUTING_KEY |-> <<"prediction", "#">>]

\* queue_bind of the two consumers.
Bindings ==
  {[exchange |-> AnalyticsConfig.CYCLE_EXCHANGE,
    queue |-> AnalyticsConfig.CYCLE_QUEUE,
    routing_key |-> AnalyticsConfig.CYCLE_ROUTING_KEY],
   [exchange |-> NotificationConfig.PREDICTION_EXCHANGE,
    queue |-> NotificationConfig.PREDICTION_QUEUE,
    routing_key |-> NotificationConfig.PREDICTION_ROUTING_KEY]}

\* exchange_type='topic': '*' stands for one word, '#' for any number of words.
RECURSIVE TopicMatches(_, _)
TopicMatches(pattern, key) ==
  IF pattern = <<>> THEN key = <<>>
  ELSE IF Head(pattern) = "#"
  THEN \/ TopicMatches(Tail(pattern), key)
       \/ key # <<>> /\ TopicMatches(pattern, Tail(key))
  ELSE /\ key # <<>>
       /\ Head(pattern) \in {"*", Head(key)}
       /\ TopicMatches(Tail(pattern), Tail(key))

\* A direct exchange compares the keys.
RoutedDirect(exchange, key) ==
  {b.queue : b \in {x \in Bindings :
                      x.exchange = exchange /\ x.routing_key = key}}

\* The queues a message published to the exchange with the key is copied to.
Routed(exchange, key) ==
  {b.queue : b \in {x \in Bindings :
                      x.exchange = exchange /\ TopicMatches(x.routing_key, key)}}

\* basic_publish as queue name sees it: a message no binding routes to the
\* queue is dropped by the exchange.
Enqueue(queue, name, exchange, key, m) ==
  IF name \in Routed(exchange, key) THEN Append(queue, m) ELSE queue

\* ---------------------------------------------------------------- broker
Body(m) == [m EXCEPT !.id = 0]

\* A body some publisher hands to exchange cycle_events with key cycle.new.
EventBodies ==
  {[id |-> 0, kind |-> "ok", cycle_id |-> c, user_id |-> CycleUser(c),
    start_date |-> Some(CycleStart(c)),
    end_date |-> IF c = 3 THEN Some(CycleStart(c) + PeriodDays) ELSE None]
     : c \in Cycles} \cup
  {[id |-> 0, kind |-> "nodata", cycle_id |-> 2, user_id |-> CycleUser(2),
    start_date |-> None, end_date |-> None]} \cup
  {[id |-> 0, kind |-> "badjson", cycle_id |-> 0, user_id |-> 0,
    start_date |-> None, end_date |-> None]}

\* Binding cycle.# routes the message to analytics_cycle_queue.
PublishCycleEvent ==
  /\ published < MaxEvents
  /\ \E b \in EventBodies :
       cycle_queue' =
         Enqueue(cycle_queue, AnalyticsConfig.CYCLE_QUEUE,
                 TrackingConfig.CYCLE_EXCHANGE, TrackingConfig.CYCLE_ROUTING_KEY,
                 [b EXCEPT !.id = published + 1])
  /\ published' = published + 1
  /\ UNCHANGED <<cycle_analytics, predictions, prediction_queue, pred_published, settled,
                 deliveries, manual, pc, cur, req, obj, orig, deact, newPred, outcome,
                 trail, before, prevMsg, notification_preferences, notifications,
                 pred_settled, pred_deliveries, foreign, conn, attempts, sleeps, app,
                 consumer_thread, cycles, symptoms, publisher, requests, treq,
                 pub_connection, pub_call, pub_accepted, pub_calls, stops, updates,
                 engine, today, sweeps, sweep, abandoned, shared>>

\* basic_qos(prefetch_count=1) and a blocking callback: the broker hands the
\* consumer the head of the queue only when it holds no unsettled delivery.
DeliverWithoutPrefetch(w) ==
  /\ cycle_queue # <<>>
  /\ cur' = [cur EXCEPT ![w] = Head(cycle_queue)]
  /\ cycle_queue' = Tail(cycle_queue)
  /\ pc' = [pc EXCEPT ![w] = "upsert"]
  /\ trail' = [trail EXCEPT ![w] = <<>>]
  /\ before' = [before EXCEPT ![w] = cycle_analytics]
  /\ deliveries' = [deliveries EXCEPT ![Head(cycle_queue).id] = @ + 1]
  /\ UNCHANGED <<cycle_analytics, predictions, prediction_queue, published,
                 pred_published, settled, manual, req, obj, orig, deact, newPred,
                 outcome, prevMsg, notification_preferences, notifications, pred_settled,
                 pred_deliveries, foreign, conn, attempts, sleeps, app, consumer_thread,
                 cycles, symptoms, publisher, requests, treq, pub_connection, pub_call,
                 pub_accepted, pub_calls, stops, updates, engine, today, sweeps, sweep,
                 abandoned, shared>>

Deliver(w) ==
  /\ pc[w] = "idle"
  /\ cycle_queue # <<>>
  /\ cur' = [cur EXCEPT ![w] = Head(cycle_queue)]
  /\ cycle_queue' = Tail(cycle_queue)
  /\ pc' = [pc EXCEPT ![w] = "upsert"]
  /\ trail' = [trail EXCEPT ![w] = <<>>]
  /\ before' = [before EXCEPT ![w] = cycle_analytics]
  /\ deliveries' = [deliveries EXCEPT ![Head(cycle_queue).id] = @ + 1]
  /\ UNCHANGED <<cycle_analytics, predictions, prediction_queue, published,
                 pred_published, settled, manual, req, obj, orig, deact, newPred,
                 outcome, prevMsg, notification_preferences, notifications, pred_settled,
                 pred_deliveries, foreign, conn, attempts, sleeps, app, consumer_thread,
                 cycles, symptoms, publisher, requests, treq, pub_connection, pub_call,
                 pub_accepted, pub_calls, stops, updates, engine, today, sweeps, sweep,
                 abandoned, shared>>

\* ------------------------------------------- analytics MessageConsumer.callback
\* An exception leaves the `with app_context()` block: the session is removed,
\* its pending writes are rolled back, and the except clause runs next.
Raise(w, where) ==
  /\ pc' = [pc EXCEPT ![w] = "nack"]
  /\ obj' = [obj EXCEPT ![w] = NoObj]
  /\ orig' = [orig EXCEPT ![w] = NoObj]
  /\ deact' = [deact EXCEPT ![w] = {}]
  /\ newPred' = [newPred EXCEPT ![w] = NoPred]
  /\ trail' = [trail EXCEPT ![w] = Append(@, where)]

NewAnalytics(m) ==
  [id |-> 0, user_id |-> m.user_id, cycle_id |-> m.cycle_id,
   start_date |-> Val(m.start_date), end_date |-> None, cycle_length |-> None,
   period_length |-> None, is_regular |-> None, average_cycle_length |-> None,
   cycle_variance |-> None]

\* The same with the period counted as the difference of the two dates.
WithEndDateExclusive(o, m) ==
  IF m.end_date # None
  THEN [o EXCEPT !.end_date = m.end_date,
                 !.period_length = Some(Val(m.end_date) - o.start_date)]
  ELSE o

\* analytics.end_date = ...; analytics.period_length = (end - start).days + 1
WithEndDate(o, m) ==
  IF m.end_date # None
  THEN [o EXCEPT !.end_date = m.end_date,
                 !.period_length = Some(Val(m.end_date) - o.start_date + 1)]
  ELSE o

\* analytics.cycle_variance < 5 if analytics.cycle_variance else None
IsRegular(variance) == IF variance # 0 THEN Some(variance < 5 * VarScale) ELSE None

\* The three metric columns, from the engine's queries (which autoflush o).
WithMetrics(o, rows, user_id) ==
  LET avg == calculate_average_cycle_length(VisibleWith(rows, o), user_id)
      variance == calculate_cycle_variance(VisibleWith(rows, o), user_id)
  IN [o EXCEPT !.average_cycle_length = Some(avg),
               !.cycle_variance = Some(variance),
               !.is_regular = IsRegular(variance)]

\* The same with filter(start_date <= analytics.start_date).
PrevAnalyticsNotStrict(rows, user_id, start_date) ==
  LET earlier == {r \in UserRows(rows, user_id) : r.start_date <= start_date}
  IN {r \in earlier : \A o \in earlier : o.start_date <= r.start_date}

\* The user's rows with the latest start date strictly before this one's.
PrevAnalytics(rows, user_id, start_date) ==
  LET earlier == {r \in UserRows(rows, user_id) : r.start_date < start_date}
  IN {r \in earlier : \A o \in earlier : o.start_date <= r.start_date}

WithCycleLength(o, rows, user_id) ==
  LET prev == PrevAnalytics(VisibleWith(rows, o), user_id, o.start_date)
  IN IF prev = {} THEN o
     ELSE LET prev_analytics == CHOOSE r \in prev : TRUE
          IN [o EXCEPT !.cycle_length =
                Some(o.start_date - prev_analytics.start_date)]

\* The object as the handler leaves it before the commit: end date and
\* period length, then the metrics, then the cycle length.
Updated(loaded, m, rows) ==
  WithCycleLength(WithMetrics(WithEndDate(loaded, m), rows, m.user_id),
                  rows, m.user_id)

\* The rows after the handler has processed message m on committed rows,
\* up to its first commit.
Handled(rows, m) ==
  LET found == {r \in rows : r.cycle_id = m.cycle_id}
      loaded == IF found = {} THEN NewAnalytics(m) ELSE CHOOSE r \in found : TRUE
  IN CommitRow(rows, Updated(loaded, m, rows), loaded)

\* json.loads, message['event_type'], the lookup by cycle_id, the creation
\* or update of the analytics object.  No other session writes
\* cycle_analytics, so the handler's reads up to its commit are one step.
Upsert(w) ==
  /\ pc[w] = "upsert"
  /\ cur[w].kind # "badjson"
  /\ LET m == cur[w]
         found == {r \in cycle_analytics : r.cycle_id = m.cycle_id}
     IN /\ found # {} \/ m.start_date # None
        /\ \E loaded \in (IF found = {} THEN {NewAnalytics(m)} ELSE found) :
             /\ orig' = [orig EXCEPT ![w] = loaded]
             /\ obj' = [obj EXCEPT ![w] = Updated(loaded, m, cycle_analytics)]
  /\ pc' = [pc EXCEPT ![w] = "commit"]
  /\ UNCHANGED <<cycle_analytics, predictions, cycle_queue, prediction_queue, published,
                 pred_published, settled, deliveries, manual, cur, req, deact, newPred,
                 outcome, trail, before, prevMsg, notification_preferences,
                 notifications, pred_settled, pred_deliveries, foreign, conn, attempts,
                 sleeps, app, consumer_thread, cycles, symptoms, publisher, requests,
                 treq, pub_connection, pub_call, pub_accepted, pub_calls, stops, updates,
                 engine, today, sweeps, sweep, abandoned, shared>>

\* json.loads raises on a malformed body (message['event_type'] on a body
\* without that key takes the same path); cycle_data['start_date'] raises
\* KeyError when the cycle id has no row and the event carries no start date.
UpsertRaises(w) ==
  /\ pc[w] = "upsert"
  /\ \/ cur[w].kind = "badjson"
     \/ /\ {r \in cycle_analytics : r.cycle_id = cur[w].cycle_id} = {}
        /\ cur[w].start_date = None
  /\ Raise(w, "raise_parse")
  /\ UNCHANGED <<cycle_analytics, predictions, cycle_queue, prediction_queue, published,
                 pred_published, settled, deliveries, manual, cur, req, outcome, before,
                 prevMsg, notification_preferences, notifications, pred_settled,
                 pred_deliveries, foreign, conn, attempts, sleeps, app, consumer_thread,
                 cycles, symptoms, publisher, requests, treq, pub_connection, pub_call,
                 pub_accepted, pub_calls, stops, updates, engine, today, sweeps, sweep,
                 abandoned, shared>>

CommitAnalytics(w) ==
  /\ pc[w] = "commit"
  /\ cycle_analytics' = CommitRow(cycle_analytics, obj[w], orig[w])
  /\ obj' = [obj EXCEPT ![w] = NoObj]
  /\ orig' = [orig EXCEPT ![w] = NoObj]
  /\ trail' = [trail EXCEPT ![w] = Append(@, "commit_analytics")]
  /\ pc' = [pc EXCEPT ![w] = "predict"]
  /\ UNCHANGED <<predictions, cycle_queue, prediction_queue, published, pred_published,
                 settled, deliveries, manual, cur, req, deact, newPred, outcome, before,
                 prevMsg, notification_preferences, notifications, pred_settled,
                 pred_deliveries, foreign, conn, attempts, sleeps, app, consumer_thread,
                 cycles, symptoms, publisher, requests, treq, pub_connection, pub_call,
                 pub_accepted, pub_calls, stops, updates, engine, today, sweeps, sweep,
                 abandoned, shared>>

\* The store refuses the flush or the commit.
CommitAnalyticsRaises(w) ==
  /\ pc[w] = "commit"
  /\ Raise(w, "raise_commit_analytics")
  /\ UNCHANGED <<cycle_analytics, predictions, cycle_queue, prediction_queue, published,
                 pred_published, settled, deliveries, manual, cur, req, outcome, before,
                 prevMsg, notification_preferences, notifications, pred_settled,
                 pred_deliveries, foreign, conn, attempts, sleeps, app, consumer_thread,
                 cycles, symptoms, publisher, requests, treq, pub_connection, pub_call,
                 pub_accepted, pub_calls, stops, updates, engine, today, sweeps, sweep,
                 abandoned, shared>>

\* The same with the gate at one row.
PredictFromOneRow(w) ==
  /\ pc[w] = "predict"
  /\ LET user_id == cur[w].user_id
         prediction == predict_next_period(Visible(w), user_id)
     IN IF Cardinality(UserRows(Visible(w), user_id)) >= 1 /\ prediction # NoPred
        THEN /\ newPred' = [newPred EXCEPT ![w] = prediction]
             /\ pc' = [pc EXCEPT ![w] = "deactivate"]
        ELSE /\ newPred' = newPred
             /\ pc' = [pc EXCEPT ![w] = "ack"]
  /\ UNCHANGED <<cycle_analytics, predictions, cycle_queue, prediction_queue, published,
                 pred_published, settled, deliveries, manual, cur, req, obj, orig, deact,
                 outcome, trail, before, prevMsg, notification_preferences,
                 notifications, pred_settled, pred_deliveries, foreign, conn, attempts,
                 sleeps, app, consumer_thread, cycles, symptoms, publisher, requests,
                 treq, pub_connection, pub_call, pub_accepted, pub_calls, stops, updates,
                 engine, today, sweeps, sweep, abandoned, shared>>

\* if count() >= 2: prediction = predict_next_period(user_id); if prediction: ...
Predict(w) ==
  /\ pc[w] = "predict"
  /\ LET user_id == cur[w].user_id
         prediction == predict_next_period(Visible(w), user_id)
     IN IF Cardinality(UserRows(Visible(w), user_id)) >= 2 /\ prediction # NoPred
        THEN /\ newPred' = [newPred EXCEPT ![w] = prediction]
             /\ pc' = [pc EXCEPT ![w] = "deactivate"]
        ELSE /\ newPred' = newPred
             /\ pc' = [pc EXCEPT ![w] = "ack"]
  /\ UNCHANGED <<cycle_analytics, predictions, cycle_queue, prediction_queue, published,
                 pred_published, settled, deliveries, manual, cur, req, obj, orig, deact,
                 outcome, trail, before, prevMsg, notification_preferences,
                 notifications, pred_settled, pred_deliveries, foreign, conn, attempts,
                 sleeps, app, consumer_thread, cycles, symptoms, publisher, requests,
                 treq, pub_connection, pub_call, pub_accepted, pub_calls, stops, updates,
                 engine, today, sweeps, sweep, abandoned, shared>>

\* A query of the prediction step fails.
PredictRaises(w) ==
  /\ pc[w] = "predict"
  /\ Raise(w, "raise_predict")
  /\ UNCHANGED <<cycle_analytics, predictions, cycle_queue, prediction_queue, published,
                 pred_published, settled, deliveries, manual, cur, req, outcome, before,
                 prevMsg, notification_preferences, notifications, pred_settled,
                 pred_deliveries, foreign, conn, attempts, sleeps, app, consumer_thread,
                 cycles, symptoms, publisher, requests, treq, pub_connection, pub_call,
                 pub_accepted, pub_calls, stops, updates, engine, today, sweeps, sweep,
                 abandoned, shared>>

DeactivateCommitsAtOnce(w) ==
  /\ pc[w] = "deactivate"
  /\ predictions' =
       {IF q.id \in ActiveIds(predictions, cur[w].user_id)
        THEN [q EXCEPT !.is_active = FALSE] ELSE q : q \in predictions}
  /\ deact' = [deact EXCEPT ![w] = {}]
  /\ pc' = [pc EXCEPT ![w] = "commit_prediction"]
  /\ UNCHANGED <<cycle_analytics, cycle_queue, prediction_queue, published,
                 pred_published, settled, deliveries, manual, cur, req, obj, orig,
                 newPred, outcome, trail, before, prevMsg, notification_preferences,
                 notifications, pred_settled, pred_deliveries, foreign, conn, attempts,
                 sleeps, app, consumer_thread, cycles, symptoms, publisher, requests,
                 treq, pub_connection, pub_call, pub_accepted, pub_calls, stops, updates,
                 engine, today, sweeps, sweep, abandoned, shared>>

Deactivate(w) ==
  /\ pc[w] = "deactivate"
  /\ deact' = [deact EXCEPT ![w] = ActiveIds(predictions, cur[w].user_id)]
  /\ pc' = [pc EXCEPT ![w] = "commit_prediction"]
  /\ UNCHANGED <<cycle_analytics, predictions, cycle_queue, prediction_queue, published,
                 pred_published, settled, deliveries, manual, cur, req, obj, orig,
                 newPred, outcome, trail, before, prevMsg, notification_preferences,
                 notifications, pred_settled, pred_deliveries, foreign, conn, attempts,
                 sleeps, app, consumer_thread, cycles, symptoms, publisher, requests,
                 treq, pub_connection, pub_call, pub_accepted, pub_calls, stops, updates,
                 engine, today, sweeps, sweep, abandoned, shared>>

CommitPrediction(w) ==
  /\ pc[w] = "commit_prediction"
  /\ predictions' = CommitPredictionRows(predictions, deact[w], newPred[w])
  /\ newPred' = [newPred EXCEPT ![w] = [@ EXCEPT !.id = Cardinality(predictions) + 1]]
  /\ deact' = [deact EXCEPT ![w] = {}]
  /\ trail' = [trail EXCEPT ![w] = Append(@, "commit_prediction")]
  /\ pc' = [pc EXCEPT ![w] = "publish"]
  /\ UNCHANGED <<cycle_analytics, cycle_queue, prediction_queue, published,
                 pred_published, settled, deliveries, manual, cur, req, obj, orig,
                 outcome, before, prevMsg, notification_preferences, notifications,
                 pred_settled, pred_deliveries, foreign, conn, attempts, sleeps, app,
                 consumer_thread, cycles, symptoms, publisher, requests, treq,
                 pub_connection, pub_call, pub_accepted, pub_calls, stops, updates,
                 engine, today, sweeps, sweep, abandoned, shared>>

CommitPredictionRaises(w) ==
  /\ pc[w] = "commit_prediction"
  /\ Raise(w, "raise_commit_prediction")
  /\ UNCHANGED <<cycle_analytics, predictions, cycle_queue, prediction_queue, published,
                 pred_published, settled, deliveries, manual, cur, req, outcome, before,
                 prevMsg, notification_preferences, notifications, pred_settled,
                 pred_deliveries, foreign, conn, attempts, sleeps, app, consumer_thread,
                 cycles, symptoms, publisher, requests, treq, pub_connection, pub_call,
                 pub_accepted, pub_calls, stops, updates, engine, today, sweeps, sweep,
                 abandoned, shared>>

\* ------------------------------------------------ analytics MessagePublisher
\* _connect makes one attempt and swallows its failure; publish_prediction
\* connects once more when there is no connection, and swallows every error
\* (the AttributeError on a channel that is None, a failed basic_publish).
\* first, again, sent: whether the broker accepts each of the three calls.
Publishes(first, again, sent) == (first \/ again) /\ sent

\* Binding prediction.# routes the message to notification_prediction_queue.
PredictionEvent(n, p) ==
  [id |-> n, kind |-> "ok", prediction_id |-> p.id, user_id |-> p.user_id,
   predicted_start_date |-> Some(p.predicted_start_date)]

publish_prediction(w) ==
  \E accepted \in {Publishes(first, again, sent) : first, again, sent \in BOOLEAN} :
    IF accepted
    THEN /\ prediction_queue' =
              Enqueue(prediction_queue, NotificationConfig.PREDICTION_QUEUE,
                      AnalyticsConfig.PREDICTION_EXCHANGE,
                      AnalyticsConfig.PREDICTION_ROUTING_KEY,
                      PredictionEvent(pred_published + 1, newPred[w]))
         /\ pred_published' = pred_published + 1
    ELSE UNCHANGED <<prediction_queue, pred_published>>

\* The same with a publisher whose failure reaches the callback's except
\* clause.
PublishFailureNacks(w) ==
  /\ pc[w] = "publish"
  /\ publish_prediction(w)
  /\ newPred' = [newPred EXCEPT ![w] = NoPred]
  /\ trail' = [trail EXCEPT ![w] = Append(@, "publish_attempt")]
  /\ pc' = [pc EXCEPT ![w] =
              IF pred_published' = pred_published THEN "nack" ELSE "ack"]
  /\ UNCHANGED <<cycle_analytics, predictions, cycle_queue, published, settled,
                 deliveries, manual, cur, req, obj, orig, deact, outcome, before,
                 prevMsg, notification_preferences, notifications, pred_settled,
                 pred_deliveries, foreign, conn, attempts, sleeps, app, consumer_thread,
                 cycles, symptoms, publisher, requests, treq, pub_connection, pub_call,
                 pub_accepted, pub_calls, stops, updates, engine, today, sweeps, sweep,
                 abandoned, shared>>

Publish(w) ==
  /\ pc[w] = "publish"
  /\ publish_prediction(w)
  /\ newPred' = [newPred EXCEPT ![w] = NoPred]
  /\ trail' = [trail EXCEPT ![w] = Append(@, "publish_attempt")]
  /\ pc' = [pc EXCEPT ![w] = "ack"]
  /\ UNCHANGED <<cycle_analytics, predictions, cycle_queue, published, settled,
                 deliveries, manual, cur, req, obj, orig, deact, outcome, before,
                 prevMsg, notification_preferences, notifications, pred_settled,
                 pred_deliveries, foreign, conn, attempts, sleeps, app, consumer_thread,
                 cycles, symptoms, publisher, requests, treq, pub_connection, pub_call,
                 pub_accepted, pub_calls, stops, updates, engine, today, sweeps, sweep,
                 abandoned, shared>>

\* basic_nack(requeue=False): the broker drops the message (the queue is
\* declared without a dead-letter exchange).
basic_nack(queue, m) == queue

\* The callback has returned: the consumer holds no delivery.
Ack(w) ==
  /\ pc[w] = "ack"
  /\ settled' = [settled EXCEPT ![cur[w].id] = Append(@, "ack")]
  /\ prevMsg' = [prevMsg EXCEPT ![w] = Body(cur[w])]
  /\ cur' = [cur EXCEPT ![w] = NoMsg]
  /\ trail' = [trail EXCEPT ![w] = <<>>]
  /\ before' = [before EXCEPT ![w] = {}]
  /\ pc' = [pc EXCEPT ![w] = "idle"]
  /\ UNCHANGED <<cycle_analytics, predictions, cycle_queue, prediction_queue, published,
                 pred_published, deliveries, manual, req, obj, orig, deact, newPred,
                 outcome, notification_preferences, notifications, pred_settled,
                 pred_deliveries, foreign, conn, attempts, sleeps, app, consumer_thread,
                 cycles, symptoms, publisher, requests, treq, pub_connection, pub_call,
                 pub_accepted, pub_calls, stops, updates, engine, today, sweeps, sweep,
                 abandoned, shared>>

Nack(w) ==
  /\ pc[w] = "nack"
  /\ settled' = [settled EXCEPT ![cur[w].id] = Append(@, "nack")]
  /\ cycle_queue' = basic_nack(cycle_queue, cur[w])
  /\ prevMsg' = [prevMsg EXCEPT ![w] = NoMsg]
  /\ cur' = [cur EXCEPT ![w] = NoMsg]
  /\ trail' = [trail EXCEPT ![w] = <<>>]
  /\ before' = [before EXCEPT ![w] = {}]
  /\ pc' = [pc EXCEPT ![w] = "idle"]
  /\ UNCHANGED <<cycle_analytics, predictions, prediction_queue, published,
                 pred_published, deliveries, manual, req, obj, orig, deact, newPred,
                 outcome, notification_preferences, notifications, pred_settled,
                 pred_deliveries, foreign, conn, attempts, sleeps, app, consumer_thread,
                 cycles, symptoms, publisher, requests, treq, pub_connection, pub_call,
                 pub_accepted, pub_calls, stops, updates, engine, today, sweeps, sweep,
                 abandoned, shared>>

\* ------------------------------------------- POST /predictions/generate
GenerateStart(r) ==
  /\ pc[r] = "idle"
  /\ manual < MaxManual
  /\ manual' = manual + 1
  /\ \E user_id \in Users : req' = [req EXCEPT ![r] = user_id]
  /\ outcome' = [outcome EXCEPT ![r] = "none"]
  /\ pc' = [pc EXCEPT ![r] = "g_count"]
  /\ UNCHANGED <<cycle_analytics, predictions, cycle_queue, prediction_queue, published,
                 pred_published, settled, deliveries, cur, obj, orig, deact, newPred,
                 trail, before, prevMsg, notification_preferences, notifications,
                 pred_settled, pred_deliveries, foreign, conn, attempts, sleeps, app,
                 consumer_thread, cycles, symptoms, publisher, requests, treq,
                 pub_connection, pub_call, pub_accepted, pub_calls, stops, updates,
                 engine, today, sweeps, sweep, abandoned, shared>>

\* The response leaves; the worker is free for the next request.
Respond(r, status) ==
  /\ outcome' = [outcome EXCEPT ![r] = status]
  /\ req' = [req EXCEPT ![r] = 0]
  /\ newPred' = [newPred EXCEPT ![r] = NoPred]
  /\ deact' = [deact EXCEPT ![r] = {}]
  /\ trail' = [trail EXCEPT ![r] = <<>>]
  /\ pc' = [pc EXCEPT ![r] = "idle"]

\* cycle_count < 2: 400 'Insufficient data for prediction'.
GenerateInsufficient(r) ==
  /\ pc[r] = "g_count"
  /\ Cardinality(UserRows(cycle_analytics, req[r])) < 2
  /\ Respond(r, "400")
  /\ UNCHANGED <<cycle_analytics, predictions, cycle_queue, prediction_queue, published,
                 pred_published, settled, deliveries, manual, cur, obj, orig, before,
                 prevMsg, notification_preferences, notifications, pred_settled,
                 pred_deliveries, foreign, conn, attempts, sleeps, app, consumer_thread,
                 cycles, symptoms, publisher, requests, treq, pub_connection, pub_call,
                 pub_accepted, pub_calls, stops, updates, engine, today, sweeps, sweep,
                 abandoned, shared>>

GenerateCount(r) ==
  /\ pc[r] = "g_count"
  /\ Cardinality(UserRows(cycle_analytics, req[r])) >= 2
  /\ newPred' = [newPred EXCEPT ![r] = predict_next_period(cycle_analytics, req[r])]
  /\ pc' = [pc EXCEPT ![r] = "g_deactivate"]
  /\ UNCHANGED <<cycle_analytics, predictions, cycle_queue, prediction_queue, published,
                 pred_published, settled, deliveries, manual, cur, req, obj, orig, deact,
                 outcome, trail, before, prevMsg, notification_preferences,
                 notifications, pred_settled, pred_deliveries, foreign, conn, attempts,
                 sleeps, app, consumer_thread, cycles, symptoms, publisher, requests,
                 treq, pub_connection, pub_call, pub_accepted, pub_calls, stops, updates,
                 engine, today, sweeps, sweep, abandoned, shared>>

GenerateDeactivate(r) ==
  /\ pc[r] = "g_deactivate"
  /\ deact' = [deact EXCEPT ![r] = ActiveIds(predictions, req[r])]
  /\ pc' = [pc EXCEPT ![r] = "g_commit"]
  /\ UNCHANGED <<cycle_analytics, predictions, cycle_queue, prediction_queue, published,
                 pred_published, settled, deliveries, manual, cur, req, obj, orig,
                 newPred, outcome, trail, before, prevMsg, notification_preferences,
                 notifications, pred_settled, pred_deliveries, foreign, conn, attempts,
                 sleeps, app, consumer_thread, cycles, symptoms, publisher, requests,
                 treq, pub_connection, pub_call, pub_accepted, pub_calls, stops, updates,
                 engine, today, sweeps, sweep, abandoned, shared>>

GenerateCommit(r) ==
  /\ pc[r] = "g_commit"
  /\ predictions' = CommitPredictionRows(predictions, deact[r], newPred[r])
  /\ newPred' = [newPred EXCEPT ![r] = [@ EXCEPT !.id = Cardinality(predictions) + 1]]
  /\ deact' = [deact EXCEPT ![r] = {}]
  /\ trail' = [trail EXCEPT ![r] = Append(@, "commit_prediction")]
  /\ pc' = [pc EXCEPT ![r] = "g_publish"]
  /\ UNCHANGED <<cycle_analytics, cycle_queue, prediction_queue, published,
                 pred_published, settled, deliveries, manual, cur, req, obj, orig,
                 outcome, before, prevMsg, notification_preferences, notifications,
                 pred_settled, pred_deliveries, foreign, conn, attempts, sleeps, app,
                 consumer_thread, cycles, symptoms, publisher, requests, treq,
                 pub_connection, pub_call, pub_accepted, pub_calls, stops, updates,
                 engine, today, sweeps, sweep, abandoned, shared>>

\* except: db.session.rollback(); 500
GenerateCommitRaises(r) ==
  /\ pc[r] = "g_commit"
  /\ newPred' = [newPred EXCEPT ![r] = NoPred]
  /\ deact' = [deact EXCEPT ![r] = {}]
  /\ trail' = [trail EXCEPT ![r] = Append(@, "raise_commit_prediction")]
  /\ pc' = [pc EXCEPT ![r] = "g_failed"]
  /\ UNCHANGED <<cycle_analytics, predictions, cycle_queue, prediction_queue, published,
                 pred_published, settled, deliveries, manual, cur, req, obj, orig,
                 outcome, before, prevMsg, notification_preferences, notifications,
                 pred_settled, pred_deliveries, foreign, conn, attempts, sleeps, app,
                 consumer_thread, cycles, symptoms, publisher, requests, treq,
                 pub_connection, pub_call, pub_accepted, pub_calls, stops, updates,
                 engine, today, sweeps, sweep, abandoned, shared>>

GenerateFailed(r) ==
  /\ pc[r] = "g_failed"
  /\ Respond(r, "500")
  /\ UNCHANGED <<cycle_analytics, predictions, cycle_queue, prediction_queue, published,
                 pred_published, settled, deliveries, manual, cur, obj, orig, before,
                 prevMsg, notification_preferences, notifications, pred_settled,
                 pred_deliveries, foreign, conn, attempts, sleeps, app, consumer_thread,
                 cycles, symptoms, publisher, requests, treq, pub_connection, pub_call,
                 pub_accepted, pub_calls, stops, updates, engine, today, sweeps, sweep,
                 abandoned, shared>>

GeneratePublish(r) ==
  /\ pc[r] = "g_publish"
  /\ publish_prediction(r)
  /\ Respond(r, "201")
  /\ UNCHANGED <<cycle_analytics, predictions, cycle_queue, published, settled,
                 deliveries, manual, cur, obj, orig, before, prevMsg,
                 notification_preferences, notifications, pred_settled, pred_deliveries,
                 foreign, conn, attempts, sleeps, app, consumer_thread, cycles, symptoms,
                 publisher, requests, treq, pub_connection, pub_call, pub_accepted,
                 pub_calls, stops, updates, engine, today, sweeps, sweep, abandoned,
                 shared>>

\* ------------------------------------------------------- broker connections
Connectors ==
  {"analytics_consumer", "notification_consumer", "cycle_publisher",
   "analytics_publisher"}
\* MessageConsumer._connect of both services and the cycle-tracking
\* MessagePublisher._connect loop over range(max_retries).
RetryConnectors == Connectors \ {"analytics_publisher"}

\* __init__ calls _connect.  The notification consumer is constructed by
\* start_consumer, see StartConsumer.
ConnectStart(k) ==
  /\ k # "notification_consumer"
  /\ conn[k] = "new"
  /\ conn' = [conn EXCEPT ![k] = "trying"]
  /\ UNCHANGED <<cycle_analytics, predictions, cycle_queue, prediction_queue, published,
                 pred_published, settled, deliveries, manual, pc, cur, req, obj, orig,
                 deact, newPred, outcome, trail, before, prevMsg,
                 notification_preferences, notifications, pred_settled, pred_deliveries,
                 foreign, attempts, sleeps, app, consumer_thread, cycles, symptoms,
                 publisher, requests, treq, pub_connection, pub_call, pub_accepted,
                 pub_calls, stops, updates, engine, today, sweeps, sweep, abandoned,
                 shared>>

\* pika.BlockingConnection, channel and the declarations succeed: return.
ConnectAttemptSucceeds(k) ==
  /\ conn[k] = "trying"
  /\ attempts' = [attempts EXCEPT ![k] = @ + 1]
  /\ conn' = [conn EXCEPT ![k] = "connected"]
  /\ UNCHANGED <<cycle_analytics, predictions, cycle_queue, prediction_queue, published,
                 pred_published, settled, deliveries, manual, pc, cur, req, obj, orig,
                 deact, newPred, outcome, trail, before, prevMsg,
                 notification_preferences, notifications, pred_settled, pred_deliveries,
                 foreign, sleeps, app, consumer_thread, cycles, symptoms, publisher,
                 requests, treq, pub_connection, pub_call, pub_accepted, pub_calls,
                 stops, updates, engine, today, sweeps, sweep, abandoned, shared>>

\* except Exception: if attempt < max_retries - 1: time.sleep(retry_delay)
\* else: raise          (attempt counts from 0)
AfterFailedAttemptOneShort(attempt) ==
  IF attempt < max_retries - 2 THEN "sleeping" ELSE "raised"

AfterFailedAttempt(attempt) ==
  IF attempt < max_retries - 1 THEN "sleeping" ELSE "raised"

RetryAfterFailure(k) ==
  /\ k \in RetryConnectors
  /\ conn[k] = "trying"
  /\ attempts' = [attempts EXCEPT ![k] = @ + 1]
  /\ conn' = [conn EXCEPT ![k] = AfterFailedAttempt(attempts[k])]
  /\ UNCHANGED <<cycle_analytics, predictions, cycle_queue, prediction_queue, published,
                 pred_published, settled, deliveries, manual, pc, cur, req, obj, orig,
                 deact, newPred, outcome, trail, before, prevMsg,
                 notification_preferences, notifications, pred_settled, pred_deliveries,
                 foreign, sleeps, app, consumer_thread, cycles, symptoms, publisher,
                 requests, treq, pub_connection, pub_call, pub_accepted, pub_calls,
                 stops, updates, engine, today, sweeps, sweep, abandoned, shared>>

\* time.sleep(retry_delay), then the next iteration of the loop.
Sleep(k) ==
  /\ conn[k] = "sleeping"
  /\ sleeps' = [sleeps EXCEPT ![k] = @ + 1]
  /\ conn' = [conn EXCEPT ![k] = "trying"]
  /\ UNCHANGED <<cycle_analytics, predictions, cycle_queue, prediction_queue, published,
                 pred_published, settled, deliveries, manual, pc, cur, req, obj, orig,
                 deact, newPred, outcome, trail, before, prevMsg,
                 notification_preferences, notifications, pred_settled, pred_deliveries,
                 foreign, attempts, app, consumer_thread, cycles, symptoms, publisher,
                 requests, treq, pub_connection, pub_call, pub_accepted, pub_calls,
                 stops, updates, engine, today, sweeps, sweep, abandoned, shared>>

\* analytics MessagePublisher._connect: one try block, the exception is
\* logged and _connect returns with connection and channel unset.
PublisherConnectFails(k) ==
  /\ k = "analytics_publisher"
  /\ conn[k] = "trying"
  /\ attempts' = [attempts EXCEPT ![k] = @ + 1]
  /\ conn' = [conn EXCEPT ![k] = "unconnected"]
  /\ UNCHANGED <<cycle_analytics, predictions, cycle_queue, prediction_queue, published,
                 pred_published, settled, deliveries, manual, pc, cur, req, obj, orig,
                 deact, newPred, outcome, trail, before, prevMsg,
                 notification_preferences, notifications, pred_settled, pred_deliveries,
                 foreign, sleeps, app, consumer_thread, cycles, symptoms, publisher,
                 requests, treq, pub_connection, pub_call, pub_accepted, pub_calls,
                 stops, updates, engine, today, sweeps, sweep, abandoned, shared>>

\* ------------------------------------------- notification service create_app
\* start_consumer(app): consumer = MessageConsumer(app)
StartConsumer ==
  /\ app = "creating"
  /\ conn["notification_consumer"] = "new"
  /\ conn' = [conn EXCEPT !["notification_consumer"] = "trying"]
  /\ app' = "starting_consumer"
  /\ UNCHANGED <<cycle_analytics, predictions, cycle_queue, prediction_queue, published,
                 pred_published, settled, deliveries, manual, pc, cur, req, obj, orig,
                 deact, newPred, outcome, trail, before, prevMsg,
                 notification_preferences, notifications, pred_settled, pred_deliveries,
                 foreign, attempts, sleeps, consumer_thread, cycles, symptoms, publisher,
                 requests, treq, pub_connection, pub_call, pub_accepted, pub_calls,
                 stops, updates, engine, today, sweeps, sweep, abandoned, shared>>

\* The constructor returned: the consumer thread is started, create_app
\* returns the app and app.run serves requests.
StartConsumerReturns ==
  /\ app = "starting_consumer"
  /\ conn["notification_consumer"] = "connected"
  /\ consumer_thread' = TRUE
  /\ app' = "running"
  /\ UNCHANGED <<cycle_analytics, predictions, cycle_queue, prediction_queue, published,
                 pred_published, settled, deliveries, manual, pc, cur, req, obj, orig,
                 deact, newPred, outcome, trail, before, prevMsg,
                 notification_preferences, notifications, pred_settled, pred_deliveries,
                 foreign, conn, attempts, sleeps, cycles, symptoms, publisher, requests,
                 treq, pub_connection, pub_call, pub_accepted, pub_calls, stops, updates,
                 engine, today, sweeps, sweep, abandoned, shared>>

\* _connect raised: create_app's except clause logs it and goes on.
StartConsumerRaises ==
  /\ app = "starting_consumer"
  /\ conn["notification_consumer"] = "raised"
  /\ app' = "running"
  /\ UNCHANGED <<cycle_analytics, predictions, cycle_queue, prediction_queue, published,
                 pred_published, settled, deliveries, manual, pc, cur, req, obj, orig,
                 deact, newPred, outcome, trail, before, prevMsg,
                 notification_preferences, notifications, pred_settled, pred_deliveries,
                 foreign, conn, attempts, sleeps, consumer_thread, cycles, symptoms,
                 publisher, requests, treq, pub_connection, pub_call, pub_accepted,
                 pub_calls, stops, updates, engine, today, sweeps, sweep, abandoned,
                 shared>>

\* -------------------------------------------- cycle-tracking service routes
NoReq == [op |-> "none"]
CycleIds == 1..2

\* Cycle.to_dict() as publish_cycle_event sends it.
CycleEvent(n, cycle) ==
  [id |-> n, kind |-> "ok", cycle_id |-> cycle.id, user_id |-> cycle.user_id,
   start_date |-> Some(cycle.start_date), end_date |-> cycle.end_date]

OwnCycle(user_id, cycle_id) ==
  {c \in cycles : c.id = cycle_id /\ c.user_id = user_id}

Begin(t, request) ==
  /\ pc[t] = "idle"
  /\ requests < MaxRequests
  /\ requests' = requests + 1
  /\ treq' = [treq EXCEPT ![t] = request]
  /\ outcome' = [outcome EXCEPT ![t] = "none"]
  /\ trail' = [trail EXCEPT ![t] = <<>>]

\* An early return: the response leaves before any write.
Reject(t, status) ==
  /\ pc[t] = "idle"
  /\ requests < MaxRequests
  /\ requests' = requests + 1
  /\ outcome' = [outcome EXCEPT ![t] = status]

\* POST /cycles
CreateCycleStart(t) ==
  /\ \E user_id \in Users, start_date \in {0, 30}, ends \in BOOLEAN :
       Begin(t, [op |-> "create_cycle", cycle_id |-> 0,
                 row |-> [id |-> 0, user_id |-> user_id, start_date |-> start_date,
                          end_date |-> IF ends THEN Some(start_date + PeriodDays)
                                       ELSE None,
                          period_length |-> None]])
  /\ pc' = [pc EXCEPT ![t] = "t_commit"]
  /\ UNCHANGED <<cycle_analytics, predictions, cycle_queue, prediction_queue, published,
                 pred_published, settled, deliveries, manual, cur, req, obj, orig, deact,
                 newPred, before, prevMsg, notification_preferences, notifications,
                 pred_settled, pred_deliveries, foreign, conn, attempts, sleeps, app,
                 consumer_thread, cycles, symptoms, publisher, pub_connection, pub_call,
                 pub_accepted, pub_calls, stops, updates, engine, today, sweeps, sweep,
                 abandoned, shared>>

\* 'start_date' not in data: 400
CreateCycleRejected(t) ==
  /\ Reject(t, "400")
  /\ UNCHANGED <<cycle_analytics, predictions, cycle_queue, prediction_queue, published,
                 pred_published, settled, deliveries, manual, pc, cur, req, obj, orig,
                 deact, newPred, trail, before, prevMsg, notification_preferences,
                 notifications, pred_settled, pred_deliveries, foreign, conn, attempts,
                 sleeps, app, consumer_thread, cycles, symptoms, publisher, treq,
                 pub_connection, pub_call, pub_accepted, pub_calls, stops, updates,
                 engine, today, sweeps, sweep, abandoned, shared>>

\* PUT /cycles/<cycle_id>
UpdateCycleStart(t) ==
  /\ \E user_id \in Users, cycle_id \in CycleIds, ends \in BOOLEAN :
       \E cycle \in OwnCycle(user_id, cycle_id) :
         Begin(t, [op |-> "update_cycle", cycle_id |-> cycle_id,
                   row |-> IF ends
                           THEN [cycle EXCEPT
                                   !.end_date = Some(cycle.start_date + PeriodDays),
                                   !.period_length = Some(PeriodDays + 1)]
                           ELSE cycle])
  /\ pc' = [pc EXCEPT ![t] = "t_commit"]
  /\ UNCHANGED <<cycle_analytics, predictions, cycle_queue, prediction_queue, published,
                 pred_published, settled, deliveries, manual, cur, req, obj, orig, deact,
                 newPred, before, prevMsg, notification_preferences, notifications,
                 pred_settled, pred_deliveries, foreign, conn, attempts, sleeps, app,
                 consumer_thread, cycles, symptoms, publisher, pub_connection, pub_call,
                 pub_accepted, pub_calls, stops, updates, engine, today, sweeps, sweep,
                 abandoned, shared>>

UpdateCycleNotFound(t) ==
  /\ \E user_id \in Users, cycle_id \in CycleIds : OwnCycle(user_id, cycle_id) = {}
  /\ Reject(t, "404")
  /\ UNCHANGED <<cycle_analytics, predictions, cycle_queue, prediction_queue, published,
                 pred_published, settled, deliveries, manual, pc, cur, req, obj, orig,
                 deact, newPred, trail, before, prevMsg, notification_preferences,
                 notifications, pred_settled, pred_deliveries, foreign, conn, attempts,
                 sleeps, app, consumer_thread, cycles, symptoms, publisher, treq,
                 pub_connection, pub_call, pub_accepted, pub_calls, stops, updates,
                 engine, today, sweeps, sweep, abandoned, shared>>

\* POST /symptoms
CreateSymptomStart(t) ==
  /\ \E user_id \in Users, cycle_id \in CycleIds :
       \E cycle \in OwnCycle(user_id, cycle_id) :
         Begin(t, [op |-> "create_symptom", cycle_id |-> cycle_id,
                   row |-> [id |-> 0, cycle_id |-> cycle_id, user_id |-> user_id]])
  /\ pc' = [pc EXCEPT ![t] = "t_commit"]
  /\ UNCHANGED <<cycle_analytics, predictions, cycle_queue, prediction_queue, published,
                 pred_published, settled, deliveries, manual, cur, req, obj, orig, deact,
                 newPred, before, prevMsg, notification_preferences, notifications,
                 pred_settled, pred_deliveries, foreign, conn, attempts, sleeps, app,
                 consumer_thread, cycles, symptoms, publisher, pub_connection, pub_call,
                 pub_accepted, pub_calls, stops, updates, engine, today, sweeps, sweep,
                 abandoned, shared>>

CreateSymptomNotFound(t) ==
  /\ \E user_id \in Users, cycle_id \in CycleIds : OwnCycle(user_id, cycle_id) = {}
  /\ Reject(t, "404")
  /\ UNCHANGED <<cycle_analytics, predictions, cycle_queue, prediction_queue, published,
                 pred_published, settled, deliveries, manual, pc, cur, req, obj, orig,
                 deact, newPred, trail, before, prevMsg, notification_preferences,
                 notifications, pred_settled, pred_deliveries, foreign, conn, attempts,
                 sleeps, app, consumer_thread, cycles, symptoms, publisher, treq,
                 pub_connection, pub_call, pub_accepted, pub_calls, stops, updates,
                 engine, today, sweeps, sweep, abandoned, shared>>

\* The row as the store holds it after the commit (the primary key is
\* assigned by the INSERT).
Stored(request) ==
  IF request.op = "create_cycle"
  THEN [request.row EXCEPT !.id = Cardinality(cycles) + 1]
  ELSE IF request.op = "create_symptom"
  THEN [request.row EXCEPT !.id = Cardinality(symptoms) + 1]
  ELSE request.row

\* db.session.commit()
TrackingCommit(t) ==
  /\ pc[t] = "t_commit"
  /\ LET row == Stored(treq[t])
     IN /\ treq' = [treq EXCEPT ![t] =
                     [@ EXCEPT !.row = row,
                               !.cycle_id = IF @ = 0 THEN row.id ELSE @]]
        /\ IF treq[t].op = "create_symptom"
           THEN /\ symptoms' = symptoms \cup {row}
                /\ cycles' = cycles
           ELSE /\ cycles' = {c \in cycles : c.id # row.id} \cup {row}
                /\ symptoms' = symptoms
  /\ trail' = [trail EXCEPT ![t] = Append(@, "commit")]
  /\ pc' = [pc EXCEPT ![t] = "t_get_publisher"]
  /\ UNCHANGED <<cycle_analytics, predictions, cycle_queue, prediction_queue, published,
                 pred_published, settled, deliveries, manual, cur, req, obj, orig, deact,
                 newPred, outcome, before, prevMsg, notification_preferences,
                 notifications, pred_settled, pred_deliveries, foreign, conn, attempts,
                 sleeps, app, consumer_thread, publisher, requests, pub_connection,
                 pub_call, pub_accepted, pub_calls, stops, updates, engine, today,
                 sweeps, sweep, abandoned, shared>>

\* The commit raises: the outer except clause rolls back and answers 500.
TrackingCommitRaisesThenPublishes(t) ==
  /\ pc[t] = "t_commit"
  /\ trail' = [trail EXCEPT ![t] = Append(@, "raise_commit")]
  /\ pc' = [pc EXCEPT ![t] = "t_get_publisher"]
  /\ UNCHANGED <<cycle_analytics, predictions, cycle_queue, prediction_queue, published,
                 pred_published, settled, deliveries, manual, cur, req, obj, orig, deact,
                 newPred, outcome, before, prevMsg, notification_preferences,
                 notifications, pred_settled, pred_deliveries, foreign, conn, attempts,
                 sleeps, app, consumer_thread, cycles, symptoms, publisher, requests,
                 treq, pub_connection, pub_call, pub_accepted, pub_calls, stops, updates,
                 engine, today, sweeps, sweep, abandoned, shared>>

TrackingCommitRaises(t) ==
  /\ pc[t] = "t_commit"
  /\ trail' = [trail EXCEPT ![t] = Append(@, "raise_commit")]
  /\ pc' = [pc EXCEPT ![t] = "t_failed"]
  /\ UNCHANGED <<cycle_analytics, predictions, cycle_queue, prediction_queue, published,
                 pred_published, settled, deliveries, manual, cur, req, obj, orig, deact,
                 newPred, outcome, before, prevMsg, notification_preferences,
                 notifications, pred_settled, pred_deliveries, foreign, conn, attempts,
                 sleeps, app, consumer_thread, cycles, symptoms, publisher, requests,
                 treq, pub_connection, pub_call, pub_accepted, pub_calls, stops, updates,
                 engine, today, sweeps, sweep, abandoned, shared>>

Answer(t, status) ==
  /\ outcome' = [outcome EXCEPT ![t] = status]
  /\ treq' = [treq EXCEPT ![t] = NoReq]
  /\ trail' = [trail EXCEPT ![t] = <<>>]
  /\ pc' = [pc EXCEPT ![t] = "idle"]

TrackingFailed(t) ==
  /\ pc[t] = "t_failed"
  /\ Answer(t, "500")
  /\ UNCHANGED <<cycle_analytics, predictions, cycle_queue, prediction_queue, published,
                 pred_published, settled, deliveries, manual, cur, req, obj, orig, deact,
                 newPred, before, prevMsg, notification_preferences, notifications,
                 pred_settled, pred_deliveries, foreign, conn, attempts, sleeps, app,
                 consumer_thread, cycles, symptoms, publisher, requests, pub_connection,
                 pub_call, pub_accepted, pub_calls, stops, updates, engine, today,
                 sweeps, sweep, abandoned, shared>>

\* get_publisher(): the global instance, created on first use.
GetPublisher(t) ==
  /\ pc[t] = "t_get_publisher"
  /\ publisher' = IF publisher = "none" THEN "open" ELSE publisher
  /\ pc' = [pc EXCEPT ![t] = "t_publish"]
  /\ UNCHANGED <<cycle_analytics, predictions, cycle_queue, prediction_queue, published,
                 pred_published, settled, deliveries, manual, cur, req, obj, orig, deact,
                 newPred, outcome, trail, before, prevMsg, notification_preferences,
                 notifications, pred_settled, pred_deliveries, foreign, conn, attempts,
                 sleeps, app, consumer_thread, cycles, symptoms, requests, treq,
                 pub_connection, pub_call, pub_accepted, pub_calls, stops, updates,
                 engine, today, sweeps, sweep, abandoned, shared>>

\* MessagePublisher() raises after its last connection attempt: the global
\* stays None and the route's inner except clause logs the failure.
GetPublisherRaises(t) ==
  /\ pc[t] = "t_get_publisher"
  /\ publisher = "none"
  /\ trail' = [trail EXCEPT ![t] = Append(@, "raise_get_publisher")]
  /\ pc' = [pc EXCEPT ![t] = "t_respond"]
  /\ UNCHANGED <<cycle_analytics, predictions, cycle_queue, prediction_queue, published,
                 pred_published, settled, deliveries, manual, cur, req, obj, orig, deact,
                 newPred, outcome, before, prevMsg, notification_preferences,
                 notifications, pred_settled, pred_deliveries, foreign, conn, attempts,
                 sleeps, app, consumer_thread, cycles, symptoms, publisher, requests,
                 treq, pub_connection, pub_call, pub_accepted, pub_calls, stops, updates,
                 engine, today, sweeps, sweep, abandoned, shared>>

\* The current cycle row the route serialises for the event.
EventCycle(request) ==
  CHOOSE c \in cycles : c.id = request.cycle_id

\* publish_cycle_event: reconnect when the connection is closed, then
\* basic_publish; every exception is caught and logged inside.
\* reconnects, sent: whether the broker accepts the reconnect, the publish.
TrackingPublish(t) ==
  /\ pc[t] = "t_publish"
  /\ \E reconnects, sent \in BOOLEAN :
       LET connected == publisher = "open" \/ reconnects
       IN IF connected /\ sent
          THEN /\ cycle_queue' =
                    Enqueue(cycle_queue, AnalyticsConfig.CYCLE_QUEUE,
                            TrackingConfig.CYCLE_EXCHANGE,
                            TrackingConfig.CYCLE_ROUTING_KEY,
                            CycleEvent(published + 1, EventCycle(treq[t])))
               /\ published' = published + 1
               /\ publisher' = "open"
               /\ trail' = [trail EXCEPT ![t] = Append(@, "published")]
          ELSE /\ UNCHANGED <<cycle_queue, published>>
               /\ publisher' = IF connected THEN "open" ELSE "closed"
               /\ trail' = [trail EXCEPT ![t] = Append(@, "raise_publish")]
  /\ pc' = [pc EXCEPT ![t] = "t_respond"]
  /\ UNCHANGED <<cycle_analytics, predictions, prediction_queue, pred_published, settled,
                 deliveries, manual, cur, req, obj, orig, deact, newPred, outcome,
                 before, prevMsg, notification_preferences, notifications, pred_settled,
                 pred_deliveries, foreign, conn, attempts, sleeps, app, consumer_thread,
                 cycles, symptoms, requests, treq, pub_connection, pub_call,
                 pub_accepted, pub_calls, stops, updates, engine, today, sweeps, sweep,
                 abandoned, shared>>

\* The broker or the network closes the publisher's connection.
ConnectionLost ==
  /\ publisher = "open"
  /\ publisher' = "closed"
  /\ UNCHANGED <<cycle_analytics, predictions, cycle_queue, prediction_queue, published,
                 pred_published, settled, deliveries, manual, pc, cur, req, obj, orig,
                 deact, newPred, outcome, trail, before, prevMsg,
                 notification_preferences, notifications, pred_settled, pred_deliveries,
                 foreign, conn, attempts, sleeps, app, consumer_thread, cycles, symptoms,
                 requests, treq, pub_connection, pub_call, pub_accepted, pub_calls,
                 stops, updates, engine, today, sweeps, sweep, abandoned, shared>>

SuccessStatus(op) == IF op = "update_cycle" THEN "200" ELSE "201"

TrackingRespond(t) ==
  /\ pc[t] = "t_respond"
  /\ Answer(t, SuccessStatus(treq[t].op))
  /\ UNCHANGED <<cycle_analytics, predictions, cycle_queue, prediction_queue, published,
                 pred_published, settled, deliveries, manual, cur, req, obj, orig, deact,
                 newPred, before, prevMsg, notification_preferences, notifications,
                 pred_settled, pred_deliveries, foreign, conn, attempts, sleeps, app,
                 consumer_thread, cycles, symptoms, publisher, requests, pub_connection,
                 pub_call, pub_accepted, pub_calls, stops, updates, engine, today,
                 sweeps, sweep, abandoned, shared>>

\* ------------------------------------------- the engine on stored histories
\* The cycle_length column of a stored row: NULL, or a number of days.
HistoryLengths == {None, Some(28), Some(30), Some(33)}

\* Rows start 28 days apart, the first on 2024-01-01 (day 0).
HistoryStart(k) == 28 * (k - 1)

HistoryRow(k, user_id, cycle_length) ==
  [id |-> k, user_id |-> user_id, cycle_id |-> k, start_date |-> HistoryStart(k),
   end_date |-> None, cycle_length |-> cycle_length, period_length |-> None,
   is_regular |-> None, average_cycle_length |-> None, cycle_variance |-> None]

\* The rows a history is made of: those of user 1 with any cycle length,
\* and every third one possibly a row of user 2.
HistoryRows(k) ==
  {HistoryRow(k, 1, l) : l \in HistoryLengths}
    \cup (IF k % 3 = 0 THEN {HistoryRow(k, 2, Some(30))} ELSE {})

NoRun == [user_id |-> 0]

AddHistoryRow ==
  /\ Cardinality(cycle_analytics) < MaxHistory
  /\ \E r \in HistoryRows(Cardinality(cycle_analytics) + 1) :
       cycle_analytics' = cycle_analytics \cup {r}
  /\ engine' = NoRun
  /\ UNCHANGED <<predictions, cycle_queue, prediction_queue, published, pred_published,
                 settled, deliveries, manual, pc, cur, req, obj, orig, deact, newPred,
                 outcome, trail, before, prevMsg, notification_preferences,
                 notifications, pred_settled, pred_deliveries, foreign, conn, attempts,
                 sleeps, app, consumer_thread, cycles, symptoms, publisher, requests,
                 treq, pub_connection, pub_call, pub_accepted, pub_calls, stops, updates,
                 today, sweeps, sweep, abandoned, shared>>

\* The three entry points of PredictionEngine called for one user.
RunEngine(user_id) ==
  /\ engine = NoRun
  /\ engine' =
       [user_id |-> user_id,
        average |-> calculate_average_cycle_length(cycle_analytics, user_id),
        variance |-> calculate_cycle_variance(cycle_analytics, user_id),
        prediction |-> predict_next_period(cycle_analytics, user_id)]
  /\ UNCHANGED <<cycle_analytics, predictions, cycle_queue, prediction_queue, published,
                 pred_published, settled, deliveries, manual, pc, cur, req, obj, orig,
                 deact, newPred, outcome, trail, before, prevMsg,
                 notification_preferences, notifications, pred_settled, pred_deliveries,
                 foreign, conn, attempts, sleeps, app, consumer_thread, cycles, symptoms,
                 publisher, requests, treq, pub_connection, pub_call, pub_accepted,
                 pub_calls, stops, updates, today, sweeps, sweep, abandoned, shared>>

\* ------------------------------------- notification MessageConsumer.callback
\* A prediction event some other client hands to exchange prediction_events:
\* a body that is not JSON, and one without predicted_start_date.
ForeignBodies ==
  {[id |-> 0, kind |-> k, prediction_id |-> 0, user_id |-> 1,
    predicted_start_date |-> None] : k \in {"badjson", "nodate"}}

PublishForeignPrediction ==
  /\ foreign < MaxForeign
  /\ \E b \in ForeignBodies :
       prediction_queue' =
         Append(prediction_queue, [b EXCEPT !.id = pred_published + 1])
  /\ pred_published' = pred_published + 1
  /\ foreign' = foreign + 1
  /\ UNCHANGED <<cycle_analytics, predictions, cycle_queue, published, settled,
                 deliveries, manual, pc, cur, req, obj, orig, deact, newPred, outcome,
                 trail, before, prevMsg, notification_preferences, notifications,
                 pred_settled, pred_deliveries, conn, attempts, sleeps, app,
                 consumer_thread, cycles, symptoms, publisher, requests, treq,
                 pub_connection, pub_call, pub_accepted, pub_calls, stops, updates,
                 engine, today, sweeps, sweep, abandoned, shared>>

NDeliver(n) ==
  /\ pc[n] = "idle"
  /\ prediction_queue # <<>>
  /\ cur' = [cur EXCEPT ![n] = Head(prediction_queue)]
  /\ prediction_queue' = Tail(prediction_queue)
  /\ pc' = [pc EXCEPT ![n] = "n_parse"]
  /\ trail' = [trail EXCEPT ![n] = <<>>]
  /\ pred_deliveries' = [pred_deliveries EXCEPT ![Head(prediction_queue).id] = @ + 1]
  /\ UNCHANGED <<cycle_analytics, predictions, cycle_queue, published, pred_published,
                 settled, deliveries, manual, req, obj, orig, deact, newPred, outcome,
                 before, prevMsg, notification_preferences, notifications, pred_settled,
                 foreign, conn, attempts, sleeps, app, consumer_thread, cycles, symptoms,
                 publisher, requests, treq, pub_connection, pub_call, pub_accepted,
                 pub_calls, stops, updates, engine, today, sweeps, sweep, abandoned,
                 shared>>

\* json.loads(body); message['event_type']
NParse(n) ==
  /\ pc[n] = "n_parse"
  /\ cur[n].kind # "badjson"
  /\ pc' = [pc EXCEPT ![n] = "n_preferences"]
  /\ UNCHANGED <<cycle_analytics, predictions, cycle_queue, prediction_queue, published,
                 pred_published, settled, deliveries, manual, cur, req, obj, orig, deact,
                 newPred, outcome, trail, before, prevMsg, notification_preferences,
                 notifications, pred_settled, pred_deliveries, foreign, conn, attempts,
                 sleeps, app, consumer_thread, cycles, symptoms, publisher, requests,
                 treq, pub_connection, pub_call, pub_accepted, pub_calls, stops, updates,
                 engine, today, sweeps, sweep, abandoned, shared>>

NParseRaises(n) ==
  /\ pc[n] = "n_parse"
  /\ cur[n].kind = "badjson"
  /\ trail' = [trail EXCEPT ![n] = Append(@, "raise_parse")]
  /\ pc' = [pc EXCEPT ![n] = "nack"]
  /\ UNCHANGED <<cycle_analytics, predictions, cycle_queue, prediction_queue, published,
                 pred_published, settled, deliveries, manual, cur, req, obj, orig, deact,
                 newPred, outcome, before, prevMsg, notification_preferences,
                 notifications, pred_settled, pred_deliveries, foreign, conn, attempts,
                 sleeps, app, consumer_thread, cycles, symptoms, publisher, requests,
                 treq, pub_connection, pub_call, pub_accepted, pub_calls, stops, updates,
                 engine, today, sweeps, sweep, abandoned, shared>>

\* The same with reminder_days_before of one day.
DefaultPreferenceOneDay(user_id) ==
  [user_id |-> user_id, period_reminder_enabled |-> TRUE,
   reminder_days_before |-> 1]

\* NotificationPreference(user_id=user_id) with the column defaults.
DefaultPreference(user_id) ==
  [user_id |-> user_id, period_reminder_enabled |-> TRUE,
   reminder_days_before |-> 3]

PreferencesOf(rows, user_id) == {r \in rows : r.user_id = user_id}

\* create_period_reminder, up to the enabled check: the preference row is
\* read, or created with the defaults and committed; the session keeps the
\* object as loaded.
NPreferencesIgnoringEnabled(n) ==
  /\ pc[n] = "n_preferences"
  /\ LET user_id == cur[n].user_id
         found == PreferencesOf(notification_preferences, user_id)
         preferences == IF found = {} THEN DefaultPreference(user_id)
                        ELSE CHOOSE r \in found : TRUE
     IN /\ notification_preferences' = notification_preferences \cup {preferences}
        /\ trail' = [trail EXCEPT ![n] =
                       IF found = {} THEN Append(@, "commit_preferences") ELSE @]
        /\ obj' = [obj EXCEPT ![n] = preferences]
        /\ pc' = [pc EXCEPT ![n] = "n_reminder"]
  /\ UNCHANGED <<cycle_analytics, predictions, cycle_queue, prediction_queue, published,
                 pred_published, settled, deliveries, manual, cur, req, orig, deact,
                 newPred, outcome, before, prevMsg, notifications, pred_settled,
                 pred_deliveries, foreign, conn, attempts, sleeps, app, consumer_thread,
                 cycles, symptoms, publisher, requests, treq, pub_connection, pub_call,
                 pub_accepted, pub_calls, stops, updates, engine, today, sweeps, sweep,
                 abandoned, shared>>

NPreferences(n) ==
  /\ pc[n] = "n_preferences"
  /\ LET user_id == cur[n].user_id
         found == PreferencesOf(notification_preferences, user_id)
         preferences == IF found = {} THEN DefaultPreference(user_id)
                        ELSE CHOOSE r \in found : TRUE
     IN /\ notification_preferences' = notification_preferences \cup {preferences}
        /\ trail' = [trail EXCEPT ![n] =
                       IF found = {} THEN Append(@, "commit_preferences") ELSE @]
        /\ IF preferences.period_reminder_enabled
           THEN /\ obj' = [obj EXCEPT ![n] = preferences]
                /\ pc' = [pc EXCEPT ![n] = "n_reminder"]
           ELSE /\ obj' = obj
                /\ pc' = [pc EXCEPT ![n] = "ack"]
  /\ UNCHANGED <<cycle_analytics, predictions, cycle_queue, prediction_queue, published,
                 pred_published, settled, deliveries, manual, cur, req, orig, deact,
                 newPred, outcome, before, prevMsg, notifications, pred_settled,
                 pred_deliveries, foreign, conn, attempts, sleeps, app, consumer_thread,
                 cycles, symptoms, publisher, requests, treq, pub_connection, pub_call,
                 pub_accepted, pub_calls, stops, updates, engine, today, sweeps, sweep,
                 abandoned, shared>>

\* The query or the commit of the default row fails: create_period_reminder
\* catches the exception, rolls back and returns None; the callback goes on.
NPreferencesRaises(n) ==
  /\ pc[n] = "n_preferences"
  /\ trail' = [trail EXCEPT ![n] = Append(@, "raise_store")]
  /\ pc' = [pc EXCEPT ![n] = "ack"]
  /\ UNCHANGED <<cycle_analytics, predictions, cycle_queue, prediction_queue, published,
                 pred_published, settled, deliveries, manual, cur, req, obj, orig, deact,
                 newPred, outcome, before, prevMsg, notification_preferences,
                 notifications, pred_settled, pred_deliveries, foreign, conn, attempts,
                 sleeps, app, consumer_thread, cycles, symptoms, publisher, requests,
                 treq, pub_connection, pub_call, pub_accepted, pub_calls, stops, updates,
                 engine, today, sweeps, sweep, abandoned, shared>>

ReminderOnPredictedDay(m, preferences, id) ==
  [id |-> id, user_id |-> m.user_id, prediction_id |-> m.prediction_id,
   notification_type |-> "period_reminder",
   scheduled_for |-> Val(m.predicted_start_date),
   status |-> "pending", sent_at |-> None, error_message |-> None]

Reminder(m, preferences, id) ==
  [id |-> id, user_id |-> m.user_id, prediction_id |-> m.prediction_id,
   notification_type |-> "period_reminder",
   scheduled_for |-> Val(m.predicted_start_date) - preferences.reminder_days_before,
   status |-> "pending", sent_at |-> None, error_message |-> None]

\* The same with the user's older pending reminders cancelled by the new one.
NReminderReplacing(n) ==
  /\ pc[n] = "n_reminder"
  /\ LET m == cur[n]
         preferences == obj[n]
     IN IF m.predicted_start_date = None
        THEN /\ trail' = [trail EXCEPT ![n] = Append(@, "raise_date")]
             /\ notifications' = notifications
        ELSE /\ notifications' =
                  {IF r.user_id = m.user_id /\ r.status = "pending"
                   THEN [r EXCEPT !.status = "cancelled"] ELSE r
                     : r \in notifications} \cup
                  {Reminder(m, preferences, Cardinality(notifications) + 1)}
             /\ trail' = [trail EXCEPT ![n] = Append(@, "commit_notification")]
  /\ obj' = [obj EXCEPT ![n] = NoObj]
  /\ pc' = [pc EXCEPT ![n] = "ack"]
  /\ UNCHANGED <<cycle_analytics, predictions, cycle_queue, prediction_queue, published,
                 pred_published, settled, deliveries, manual, cur, req, orig, deact,
                 newPred, outcome, before, prevMsg, notification_preferences,
                 pred_settled, pred_deliveries, foreign, conn, attempts, sleeps, app,
                 consumer_thread, cycles, symptoms, publisher, requests, treq,
                 pub_connection, pub_call, pub_accepted, pub_calls, stops, updates,
                 engine, today, sweeps, sweep, abandoned, shared>>

\* datetime.fromisoformat(predicted_date) raises TypeError on None, and
\* create_period_reminder catches it as it catches a store error.
NReminder(n) ==
  /\ pc[n] = "n_reminder"
  /\ LET m == cur[n]
         preferences == obj[n]
     IN IF m.predicted_start_date = None
        THEN /\ trail' = [trail EXCEPT ![n] = Append(@, "raise_date")]
             /\ notifications' = notifications
        ELSE /\ notifications' = notifications \cup
                  {Reminder(m, preferences, Cardinality(notifications) + 1)}
             /\ trail' = [trail EXCEPT ![n] = Append(@, "commit_notification")]
  /\ obj' = [obj EXCEPT ![n] = NoObj]
  /\ pc' = [pc EXCEPT ![n] = "ack"]
  /\ UNCHANGED <<cycle_analytics, predictions, cycle_queue, prediction_queue, published,
                 pred_published, settled, deliveries, manual, cur, req, orig, deact,
                 newPred, outcome, before, prevMsg, notification_preferences,
                 pred_settled, pred_deliveries, foreign, conn, attempts, sleeps, app,
                 consumer_thread, cycles, symptoms, publisher, requests, treq,
                 pub_connection, pub_call, pub_accepted, pub_calls, stops, updates,
                 engine, today, sweeps, sweep, abandoned, shared>>

\* The insert or its commit fails: caught inside create_period_reminder.
NReminderRaises(n) ==
  /\ pc[n] = "n_reminder"
  /\ cur[n].predicted_start_date # None
  /\ trail' = [trail EXCEPT ![n] = Append(@, "raise_store")]
  /\ obj' = [obj EXCEPT ![n] = NoObj]
  /\ pc' = [pc EXCEPT ![n] = "ack"]
  /\ UNCHANGED <<cycle_analytics, predictions, cycle_queue, prediction_queue, published,
                 pred_published, settled, deliveries, manual, cur, req, orig, deact,
                 newPred, outcome, before, prevMsg, notification_preferences,
                 notifications, pred_settled, pred_deliveries, foreign, conn, attempts,
                 sleeps, app, consumer_thread, cycles, symptoms, publisher, requests,
                 treq, pub_connection, pub_call, pub_accepted, pub_calls, stops, updates,
                 engine, today, sweeps, sweep, abandoned, shared>>

NAck(n) ==
  /\ pc[n] = "ack"
  /\ pred_settled' = [pred_settled EXCEPT ![cur[n].id] = Append(@, "ack")]
  /\ cur' = [cur EXCEPT ![n] = NoMsg]
  /\ trail' = [trail EXCEPT ![n] = <<>>]
  /\ pc' = [pc EXCEPT ![n] = "idle"]
  /\ UNCHANGED <<cycle_analytics, predictions, cycle_queue, prediction_queue, published,
                 pred_published, settled, deliveries, manual, req, obj, orig, deact,
                 newPred, outcome, before, prevMsg, notification_preferences,
                 notifications, pred_deliveries, foreign, conn, attempts, sleeps, app,
                 consumer_thread, cycles, symptoms, publisher, requests, treq,
                 pub_connection, pub_call, pub_accepted, pub_calls, stops, updates,
                 engine, today, sweeps, sweep, abandoned, shared>>

NNack(n) ==
  /\ pc[n] = "nack"
  /\ pred_settled' = [pred_settled EXCEPT ![cur[n].id] = Append(@, "nack")]
  /\ prediction_queue' = basic_nack(prediction_queue, cur[n])
  /\ cur' = [cur EXCEPT ![n] = NoMsg]
  /\ trail' = [trail EXCEPT ![n] = <<>>]
  /\ pc' = [pc EXCEPT ![n] = "idle"]
  /\ UNCHANGED <<cycle_analytics, predictions, cycle_queue, published, pred_published,
                 settled, deliveries, manual, req, obj, orig, deact, newPred, outcome,
                 before, prevMsg, notification_preferences, notifications,
                 pred_deliveries, foreign, conn, attempts, sleeps, app, consumer_thread,
                 cycles, symptoms, publisher, requests, treq, pub_connection, pub_call,
                 pub_accepted, pub_calls, stops, updates, engine, today, sweeps, sweep,
                 abandoned, shared>>

\* ------------------------------------------- prediction events, preferences
\* Day number of a date of 2024 (a leap year), 2024-01-01 being day 0.
DaysInMonth == <<31, 29, 31, 30, 31, 30, 31, 31, 30, 31, 30, 31>>

RECURSIVE DaysBefore(_)
DaysBefore(month) ==
  IF month = 1 THEN 0 ELSE DaysInMonth[month - 1] + DaysBefore(month - 1)

Date2024(month, day) == DaysBefore(month) + day - 1

\* The predictions whose events reach the notification service.
PredictionInputs ==
  {[id |-> u, user_id |-> u, predicted_start_date |-> d] :
     u \in Users, d \in {Date2024(3, 1), Date2024(3, 29)}}

\* publish_prediction of the analytics service, seen from the broker.
PublishPredictionEvent ==
  /\ pred_published < MaxReminderEvents
  /\ \E p \in PredictionInputs :
       prediction_queue' =
         Enqueue(prediction_queue, NotificationConfig.PREDICTION_QUEUE,
                 AnalyticsConfig.PREDICTION_EXCHANGE,
                 AnalyticsConfig.PREDICTION_ROUTING_KEY,
                 PredictionEvent(pred_published + 1, p))
  /\ pred_published' = pred_published + 1
  /\ UNCHANGED <<cycle_analytics, predictions, cycle_queue, published, settled,
                 deliveries, manual, pc, cur, req, obj, orig, deact, newPred, outcome,
                 trail, before, prevMsg, notification_preferences, notifications,
                 pred_settled, pred_deliveries, foreign, conn, attempts, sleeps, app,
                 consumer_thread, cycles, symptoms, publisher, requests, treq,
                 pub_connection, pub_call, pub_accepted, pub_calls, stops, updates,
                 engine, today, sweeps, sweep, abandoned, shared>>

\* The JSON bodies of PUT /preferences: each key present or not.
PreferenceData ==
  [period_reminder_enabled : {None, Some(TRUE), Some(FALSE)},
   reminder_days_before : {None, Some(1), Some(8)}]

\* update_preferences: the row is read or created, the keys present are
\* applied, a reminder_days_before outside 1..7 answers 400 before the commit.
Updated_preferences(row, data) ==
  LET enabled == IF data.period_reminder_enabled # None
                 THEN [row EXCEPT !.period_reminder_enabled =
                                     Val(data.period_reminder_enabled)]
                 ELSE row
  IN IF data.reminder_days_before # None
     THEN [enabled EXCEPT !.reminder_days_before = Val(data.reminder_days_before)]
     ELSE enabled

ValidDays(data) ==
  data.reminder_days_before # None =>
    (1 <= Val(data.reminder_days_before) /\ Val(data.reminder_days_before) <= 7)

update_preferences(user_id) ==
  /\ updates < MaxUpdates
  /\ updates' = updates + 1
  /\ \E data \in PreferenceData :
       LET found == PreferencesOf(notification_preferences, user_id)
           preferences == IF found = {} THEN DefaultPreference(user_id)
                          ELSE CHOOSE r \in found : TRUE
       IN IF ValidDays(data)
          THEN notification_preferences' =
                 (notification_preferences \ found)
                   \cup {Updated_preferences(preferences, data)}
          ELSE UNCHANGED notification_preferences
  /\ UNCHANGED <<cycle_analytics, predictions, cycle_queue, prediction_queue, published,
                 pred_published, settled, deliveries, manual, pc, cur, req, obj, orig,
                 deact, newPred, outcome, trail, before, prevMsg, notifications,
                 pred_settled, pred_deliveries, foreign, conn, attempts, sleeps, app,
                 consumer_thread, cycles, symptoms, publisher, requests, treq,
                 pub_connection, pub_call, pub_accepted, pub_calls, stops, engine, today,
                 sweeps, sweep, abandoned, shared>>

\* get_preferences: the row is read, or created with the defaults and
\* committed; the unique index on user_id admits one row per user.
get_preferences(user_id) ==
  /\ updates < MaxUpdates
  /\ updates' = updates + 1
  /\ notification_preferences' =
       IF PreferencesOf(notification_preferences, user_id) = {}
       THEN notification_preferences \cup {DefaultPreference(user_id)}
       ELSE notification_preferences
  /\ UNCHANGED <<cycle_analytics, predictions, cycle_queue, prediction_queue, published,
                 pred_published, settled, deliveries, manual, pc, cur, req, obj, orig,
                 deact, newPred, outcome, trail, before, prevMsg, notifications,
                 pred_settled, pred_deliveries, foreign, conn, attempts, sleeps, app,
                 consumer_thread, cycles, symptoms, publisher, requests, treq,
                 pub_connection, pub_call, pub_accepted, pub_calls, stops, engine, today,
                 sweeps, sweep, abandoned, shared>>

\* ------------------------------------------------- the publishers' publish
\* publish_cycle_event of the cycle-tracking MessagePublisher and
\* publish_prediction of the analytics MessagePublisher, step by step.
Publishers == {"publish_cycle_event", "publish_prediction"}

\* at: where the call stands; reconnects: _connect calls the publish made;
\* failed: such a _connect did not connect; closed_at_call: the connection
\* was absent or closed when publish looked at it; accepted_at_call: what
\* the broker had accepted from this publisher by then; result: what the
\* caller of publish gets ("returned": a normal return, "raised": an
\* exception); caller: the function that made the publisher and the call.
NoCall ==
  [at |-> "idle", reconnects |-> 0, failed |-> FALSE, closed_at_call |-> FALSE,
   accepted_at_call |-> 0, result |-> "none", caller |-> "none"]

\* MessagePublisher() is constructed by the consumer's callback and by the
\* route generate_prediction.
PredictionCallers == {"callback", "generate_prediction"}

\* get_publisher(): the global instance, constructed on first use; the
\* constructor's _connect raises after its last attempt, and then no
\* instance exists and publish_cycle_event is not called.
GetCyclePublisher ==
  LET p == "publish_cycle_event"
  IN /\ pub_call[p].at = "idle"
     /\ pub_calls[p] < MaxPublishCalls
     /\ \E connects \in BOOLEAN :
          IF pub_connection[p] = "none"
          THEN /\ connects
               /\ pub_connection' = [pub_connection EXCEPT ![p] = "open"]
          ELSE UNCHANGED pub_connection
     /\ pub_call' = [pub_call EXCEPT ![p].at = "made", ![p].caller = "create_cycle"]
     /\ UNCHANGED <<cycle_analytics, predictions, cycle_queue, prediction_queue, published,
                 pred_published, settled, deliveries, manual, pc, cur, req, obj, orig,
                 deact, newPred, outcome, trail, before, prevMsg,
                 notification_preferences, notifications, pred_settled, pred_deliveries,
                 foreign, conn, attempts, sleeps, app, consumer_thread, cycles, symptoms,
                 publisher, requests, treq, pub_accepted, pub_calls, stops, updates,
                 engine, today, sweeps, sweep, abandoned, shared>>

\* MessagePublisher(): a new instance for every prediction; the constructor's
\* _connect makes one attempt and swallows its failure.
NewPredictionPublisher ==
  LET p == "publish_prediction"
  IN /\ pub_call[p].at = "idle"
     /\ pub_calls[p] < MaxPublishCalls
     /\ \E connects \in BOOLEAN :
          pub_connection' =
            [pub_connection EXCEPT ![p] = IF connects THEN "open" ELSE "none"]
     /\ \E caller \in PredictionCallers :
          pub_call' = [pub_call EXCEPT ![p].at = "made", ![p].caller = caller]
     /\ UNCHANGED <<cycle_analytics, predictions, cycle_queue, prediction_queue, published,
                 pred_published, settled, deliveries, manual, pc, cur, req, obj, orig,
                 deact, newPred, outcome, trail, before, prevMsg,
                 notification_preferences, notifications, pred_settled, pred_deliveries,
                 foreign, conn, attempts, sleeps, app, consumer_thread, cycles, symptoms,
                 publisher, requests, treq, pub_accepted, pub_calls, stops, updates,
                 engine, today, sweeps, sweep, abandoned, shared>>

\* The broker or the network closes a publisher's connection.
ConnectionDrops(p) ==
  /\ pub_connection[p] = "open"
  /\ pub_connection' = [pub_connection EXCEPT ![p] = "closed"]
  /\ UNCHANGED <<cycle_analytics, predictions, cycle_queue, prediction_queue, published,
                 pred_published, settled, deliveries, manual, pc, cur, req, obj, orig,
                 deact, newPred, outcome, trail, before, prevMsg,
                 notification_preferences, notifications, pred_settled, pred_deliveries,
                 foreign, conn, attempts, sleeps, app, consumer_thread, cycles, symptoms,
                 publisher, requests, treq, pub_call, pub_accepted, pub_calls, stops,
                 updates, engine, today, sweeps, sweep, abandoned, shared>>

\* What a failed _connect inside publish leads to: the cycle publisher's
\* _connect raises into publish_cycle_event's except clause; the prediction
\* publisher's _connect swallows the failure and publish_prediction goes on.
AfterFailedReconnect(p) ==
  IF p = "publish_cycle_event" THEN "returned" ELSE "publishing"

\* if not self.connection or self.connection.is_closed: self._connect()
PublishReconnects(p) ==
  /\ pub_call[p].at = "made"
  /\ pub_connection[p] # "open"
  /\ \E connects \in BOOLEAN :
       /\ pub_connection' =
            [pub_connection EXCEPT ![p] = IF connects THEN "open" ELSE @]
       /\ pub_call' =
            [pub_call EXCEPT
               ![p] = [at |-> IF connects THEN "publishing"
                              ELSE AfterFailedReconnect(p),
                       reconnects |-> @.reconnects + 1,
                       failed |-> ~connects,
                       closed_at_call |-> TRUE,
                       accepted_at_call |-> pub_accepted[p],
                       result |-> IF connects \/ AfterFailedReconnect(p) = "publishing"
                                  THEN "none" ELSE "returned",
                       caller |-> @.caller]]
  /\ UNCHANGED <<cycle_analytics, predictions, cycle_queue, prediction_queue, published,
                 pred_published, settled, deliveries, manual, pc, cur, req, obj, orig,
                 deact, newPred, outcome, trail, before, prevMsg,
                 notification_preferences, notifications, pred_settled, pred_deliveries,
                 foreign, conn, attempts, sleeps, app, consumer_thread, cycles, symptoms,
                 publisher, requests, treq, pub_accepted, pub_calls, stops, updates,
                 engine, today, sweeps, sweep, abandoned, shared>>

\* The connection is there and not closed: no _connect.
PublishConnected(p) ==
  /\ pub_call[p].at = "made"
  /\ pub_connection[p] = "open"
  /\ pub_call' =
       [pub_call EXCEPT ![p].at = "publishing",
                        ![p].accepted_at_call = pub_accepted[p]]
  /\ UNCHANGED <<cycle_analytics, predictions, cycle_queue, prediction_queue, published,
                 pred_published, settled, deliveries, manual, pc, cur, req, obj, orig,
                 deact, newPred, outcome, trail, before, prevMsg,
                 notification_preferences, notifications, pred_settled, pred_deliveries,
                 foreign, conn, attempts, sleeps, app, consumer_thread, cycles, symptoms,
                 publisher, requests, treq, pub_connection, pub_accepted, pub_calls,
                 stops, updates, engine, today, sweeps, sweep, abandoned, shared>>

\* self.channel.basic_publish(...) inside try: on a channel that is None or
\* closed it raises; the except clause logs the exception and publish
\* returns None either way.
BasicPublishOnAnyChannel(p) ==
  /\ pub_call[p].at = "publishing"
  /\ \E sent \in BOOLEAN :
       pub_accepted' = [pub_accepted EXCEPT ![p] = IF sent THEN @ + 1 ELSE @]
  /\ pub_call' = [pub_call EXCEPT ![p].at = "returned", ![p].result = "returned"]
  /\ UNCHANGED <<cycle_analytics, predictions, cycle_queue, prediction_queue, published,
                 pred_published, settled, deliveries, manual, pc, cur, req, obj, orig,
                 deact, newPred, outcome, trail, before, prevMsg,
                 notification_preferences, notifications, pred_settled, pred_deliveries,
                 foreign, conn, attempts, sleeps, app, consumer_thread, cycles, symptoms,
                 publisher, requests, treq, pub_connection, pub_calls, stops, updates,
                 engine, today, sweeps, sweep, abandoned, shared>>

BasicPublish(p) ==
  /\ pub_call[p].at = "publishing"
  /\ \E sent \in BOOLEAN :
       pub_accepted' =
         [pub_accepted EXCEPT
            ![p] = IF pub_connection[p] = "open" /\ sent THEN @ + 1 ELSE @]
  /\ pub_call' = [pub_call EXCEPT ![p].at = "returned", ![p].result = "returned"]
  /\ UNCHANGED <<cycle_analytics, predictions, cycle_queue, prediction_queue, published,
                 pred_published, settled, deliveries, manual, pc, cur, req, obj, orig,
                 deact, newPred, outcome, trail, before, prevMsg,
                 notification_preferences, notifications, pred_settled, pred_deliveries,
                 foreign, conn, attempts, sleeps, app, consumer_thread, cycles, symptoms,
                 publisher, requests, treq, pub_connection, pub_calls, stops, updates,
                 engine, today, sweeps, sweep, abandoned, shared>>

\* Back in the caller. The cycle publisher stays the global instance.
\* generate_prediction calls publisher.close() and drops the publisher; the
\* callback drops the publisher without close(), and a connection that is
\* open then stays open at the broker with nothing referring to it.
PublishReturns(p) ==
  /\ pub_call[p].at = "returned"
  /\ pub_call' = [pub_call EXCEPT ![p] = NoCall]
  /\ pub_calls' = [pub_calls EXCEPT ![p] = @ + 1]
  /\ pub_connection' =
       [pub_connection EXCEPT ![p] = IF p = "publish_prediction" THEN "none" ELSE @]
  /\ abandoned' =
       IF pub_call[p].caller = "callback" /\ pub_connection[p] = "open"
       THEN abandoned + 1 ELSE abandoned
  /\ UNCHANGED <<cycle_analytics, predictions, cycle_queue, prediction_queue, published,
                 pred_published, settled, deliveries, manual, pc, cur, req, obj, orig,
                 deact, newPred, outcome, trail, before, prevMsg,
                 notification_preferences, notifications, pred_settled, pred_deliveries,
                 foreign, conn, attempts, sleeps, app, consumer_thread, cycles, symptoms,
                 publisher, requests, treq, pub_accepted, stops, updates, engine, today,
                 sweeps, sweep, shared>>

\* Nothing in the service closes an abandoned connection; the interpreter's
\* garbage collector may finalize its socket, or the broker may give it up.
AbandonedConnectionEnds ==
  /\ abandoned > 0
  /\ abandoned' = abandoned - 1
  /\ UNCHANGED <<cycle_analytics, predictions, cycle_queue, prediction_queue, published,
                 pred_published, settled, deliveries, manual, pc, cur, req, obj, orig,
                 deact, newPred, outcome, trail, before, prevMsg,
                 notification_preferences, notifications, pred_settled, pred_deliveries,
                 foreign, conn, attempts, sleeps, app, consumer_thread, cycles, symptoms,
                 publisher, requests, treq, pub_connection, pub_call, pub_accepted,
                 pub_calls, stops, updates, engine, today, sweeps, sweep, shared>>

\* ------------------------------------------------- get_publisher, shared
\* The server handles requests in threads: two requests of create_cycle at
\* a time.
RequestWorkers == {"q1", "q2"}

\* publisher: the instance the global names (0: None); created: instances
\* constructed so far, each with its own connection; requests: create_cycle
\* requests so far; at, using: where each worker stands and the instance it
\* got from get_publisher.
NoPublisher ==
  [publisher |-> 0, created |-> 0, requests |-> 0,
   at |-> [t \in RequestWorkers |-> "idle"],
   using |-> [t \in RequestWorkers |-> 0]]

\* db.session.commit() of create_cycle is done: the worker goes on to publish.
CreateCycleCommitted(t) ==
  /\ shared.at[t] = "idle"
  /\ shared.requests < MaxCreates
  /\ shared' = [shared EXCEPT !.requests = @ + 1, !.at[t] = "get_publisher"]
  /\ UNCHANGED <<cycle_analytics, predictions, cycle_queue, prediction_queue, published,
                 pred_published, settled, deliveries, manual, pc, cur, req, obj, orig,
                 deact, newPred, outcome, trail, before, prevMsg,
                 notification_preferences, notifications, pred_settled, pred_deliveries,
                 foreign, conn, attempts, sleeps, app, consumer_thread, cycles, symptoms,
                 publisher, requests, treq, pub_connection, pub_call, pub_accepted,
                 pub_calls, stops, updates, engine, today, sweeps, sweep, abandoned>>

\* if publisher is None: ... return publisher
GetPublisherReads(t) ==
  /\ shared.at[t] = "get_publisher"
  /\ shared' = IF shared.publisher = 0
               THEN [shared EXCEPT !.at[t] = "construct"]
               ELSE [shared EXCEPT !.at[t] = "publish", !.using[t] = shared.publisher]
  /\ UNCHANGED <<cycle_analytics, predictions, cycle_queue, prediction_queue, published,
                 pred_published, settled, deliveries, manual, pc, cur, req, obj, orig,
                 deact, newPred, outcome, trail, before, prevMsg,
                 notification_preferences, notifications, pred_settled, pred_deliveries,
                 foreign, conn, attempts, sleeps, app, consumer_thread, cycles, symptoms,
                 publisher, requests, treq, pub_connection, pub_call, pub_accepted,
                 pub_calls, stops, updates, engine, today, sweeps, sweep, abandoned>>

\* publisher = MessagePublisher(): the instance is constructed (its
\* constructor connects, which takes time) and only then bound to the global.
GetPublisherCreates(t) ==
  /\ shared.at[t] = "construct"
  /\ shared' = [shared EXCEPT !.created = @ + 1, !.publisher = shared.created + 1,
                              !.using[t] = shared.created + 1, !.at[t] = "publish"]
  /\ UNCHANGED <<cycle_analytics, predictions, cycle_queue, prediction_queue, published,
                 pred_published, settled, deliveries, manual, pc, cur, req, obj, orig,
                 deact, newPred, outcome, trail, before, prevMsg,
                 notification_preferences, notifications, pred_settled, pred_deliveries,
                 foreign, conn, attempts, sleeps, app, consumer_thread, cycles, symptoms,
                 publisher, requests, treq, pub_connection, pub_call, pub_accepted,
                 pub_calls, stops, updates, engine, today, sweeps, sweep, abandoned>>

\* publisher.publish_cycle_event(...): basic_publish writes frames on the
\* instance's channel ...
PublishBegins(t) ==
  /\ shared.at[t] = "publish"
  /\ shared' = [shared EXCEPT !.at[t] = "publishing"]
  /\ UNCHANGED <<cycle_analytics, predictions, cycle_queue, prediction_queue, published,
                 pred_published, settled, deliveries, manual, pc, cur, req, obj, orig,
                 deact, newPred, outcome, trail, before, prevMsg,
                 notification_preferences, notifications, pred_settled, pred_deliveries,
                 foreign, conn, attempts, sleeps, app, consumer_thread, cycles, symptoms,
                 publisher, requests, treq, pub_connection, pub_call, pub_accepted,
                 pub_calls, stops, updates, engine, today, sweeps, sweep, abandoned>>

\* ... and returns.
PublishEnds(t) ==
  /\ shared.at[t] = "publishing"
  /\ shared' = [shared EXCEPT !.at[t] = "idle", !.using[t] = 0]
  /\ UNCHANGED <<cycle_analytics, predictions, cycle_queue, prediction_queue, published,
                 pred_published, settled, deliveries, manual, pc, cur, req, obj, orig,
                 deact, newPred, outcome, trail, before, prevMsg,
                 notification_preferences, notifications, pred_settled, pred_deliveries,
                 foreign, conn, attempts, sleeps, app, consumer_thread, cycles, symptoms,
                 publisher, requests, treq, pub_connection, pub_call, pub_accepted,
                 pub_calls, stops, updates, engine, today, sweeps, sweep, abandoned>>

\* ------------------------------------------------ consumer stop and restart
\* notification_prediction_queue is declared durable and consumed without
\* auto_ack: when the consumer's channel goes away (start_consuming ends, the
\* process exits), the broker puts the delivery it has not seen settled back
\* at the head of the queue. The session dies with the process.
ConsumerStopsLosingDelivery(n) ==
  /\ pc[n] # "stopped"
  /\ stops < MaxStops
  /\ stops' = stops + 1
  /\ UNCHANGED prediction_queue
  /\ cur' = [cur EXCEPT ![n] = NoMsg]
  /\ obj' = [obj EXCEPT ![n] = NoObj]
  /\ trail' = [trail EXCEPT ![n] = <<>>]
  /\ pc' = [pc EXCEPT ![n] = "stopped"]
  /\ UNCHANGED <<cycle_analytics, predictions, cycle_queue, published, pred_published,
                 settled, deliveries, manual, req, orig, deact, newPred, outcome, before,
                 prevMsg, notification_preferences, notifications, pred_settled,
                 pred_deliveries, foreign, conn, attempts, sleeps, app, consumer_thread,
                 cycles, symptoms, publisher, requests, treq, pub_connection, pub_call,
                 pub_accepted, pub_calls, updates, engine, today, sweeps, sweep,
                 abandoned, shared>>

ConsumerStops(n) ==
  /\ pc[n] # "stopped"
  /\ stops < MaxStops
  /\ stops' = stops + 1
  /\ prediction_queue' =
       IF cur[n] = NoMsg THEN prediction_queue ELSE <<cur[n]>> \o prediction_queue
  /\ cur' = [cur EXCEPT ![n] = NoMsg]
  /\ obj' = [obj EXCEPT ![n] = NoObj]
  /\ trail' = [trail EXCEPT ![n] = <<>>]
  /\ pc' = [pc EXCEPT ![n] = "stopped"]
  /\ UNCHANGED <<cycle_analytics, predictions, cycle_queue, published, pred_published,
                 settled, deliveries, manual, req, orig, deact, newPred, outcome, before,
                 prevMsg, notification_preferences, notifications, pred_settled,
                 pred_deliveries, foreign, conn, attempts, sleeps, app, consumer_thread,
                 cycles, symptoms, publisher, requests, treq, pub_connection, pub_call,
                 pub_accepted, pub_calls, updates, engine, today, sweeps, sweep,
                 abandoned, shared>>

\* start_consumer(): _connect declares the exchange, the durable queue and the
\* binding again (idempotent) and start_consuming registers the callback.
ConsumerRestarts(n) ==
  /\ pc[n] = "stopped"
  /\ pc' = [pc EXCEPT ![n] = "idle"]
  /\ UNCHANGED <<cycle_analytics, predictions, cycle_queue, prediction_queue, published,
                 pred_published, settled, deliveries, manual, cur, req, obj, orig, deact,
                 newPred, outcome, trail, before, prevMsg, notification_preferences,
                 notifications, pred_settled, pred_deliveries, foreign, conn, attempts,
                 sleeps, app, consumer_thread, cycles, symptoms, publisher, requests,
                 treq, pub_connection, pub_call, pub_accepted, pub_calls, stops, updates,
                 engine, today, sweeps, sweep, abandoned, shared>>

\* start_consuming raises inside the running process (the connection to the
\* broker is lost): the except clause logs the error and the method returns,
\* which ends the consumer thread; the broker requeues the unsettled
\* delivery. Nothing in the service starts the thread again.
ConsumeLoopRaises(n) ==
  /\ pc[n] \notin {"stopped", "ended"}
  /\ prediction_queue' =
       IF cur[n] = NoMsg THEN prediction_queue ELSE <<cur[n]>> \o prediction_queue
  /\ cur' = [cur EXCEPT ![n] = NoMsg]
  /\ obj' = [obj EXCEPT ![n] = NoObj]
  /\ trail' = [trail EXCEPT ![n] = <<>>]
  /\ pc' = [pc EXCEPT ![n] = "ended"]
  /\ UNCHANGED <<cycle_analytics, predictions, cycle_queue, published, pred_published,
                 settled, deliveries, manual, req, orig, deact, newPred, outcome, before,
                 prevMsg, notification_preferences, notifications, pred_settled,
                 pred_deliveries, foreign, conn, attempts, sleeps, app, consumer_thread,
                 cycles, symptoms, publisher, requests, treq, pub_connection, pub_call,
                 pub_accepted, pub_calls, stops, updates, engine, today, sweeps, sweep,
                 abandoned, shared>>

\* ------------------------------------------ process_pending_notifications
SweepWorkers == {"s1", "s2"}

\* at: where the run stands; todo: the notifications the query returned that
\* are still to be sent; sent_count; run: the number of the run, which stands
\* for the time its sends happen at; day: today as the run read it; start:
\* table notifications as the query saw it; raised: an exception ended the
\* run; result: what the run returned.
NoSweep ==
  [at |-> "idle", todo |-> <<>>, sent_count |-> 0, run |-> 0, day |-> 0,
   start |-> {}, raised |-> FALSE, result |-> None]

\* datetime.utcnow().date() moves on.
Midnight ==
  /\ today < Date2024(3, 1)
  /\ today' = Date2024(3, 1)
  /\ UNCHANGED <<cycle_analytics, predictions, cycle_queue, prediction_queue, published,
                 pred_published, settled, deliveries, manual, pc, cur, req, obj, orig,
                 deact, newPred, outcome, trail, before, prevMsg,
                 notification_preferences, notifications, pred_settled, pred_deliveries,
                 foreign, conn, attempts, sleeps, app, consumer_thread, cycles, symptoms,
                 publisher, requests, treq, pub_connection, pub_call, pub_accepted,
                 pub_calls, stops, updates, engine, sweeps, sweep, abandoned, shared>>

\* filter(status == 'pending', scheduled_for <= today)
PendingIds(rows, day) == {r.id : r \in {x \in rows : x.status = "pending"}}

DueIds(rows, day) ==
  {r.id : r \in {x \in rows : x.status = "pending" /\ x.scheduled_for <= day}}

\* .all(): the rows in the order the database returns them, here by id.
RECURSIVE InOrder(_)
InOrder(ids) ==
  IF ids = {} THEN <<>>
  ELSE LET first == CHOOSE i \in ids : \A j \in ids : i <= j
       IN <<first>> \o InOrder(ids \ {first})

SweepSelect(s) ==
  /\ sweep[s].at = "idle"
  /\ sweeps < MaxSweeps
  /\ sweeps' = sweeps + 1
  /\ sweep' = [sweep EXCEPT ![s] =
                 [NoSweep EXCEPT !.at = "send",
                                 !.todo = InOrder(DueIds(notifications, today)),
                                 !.run = sweeps + 1,
                                 !.day = today,
                                 !.start = notifications]]
  /\ UNCHANGED <<cycle_analytics, predictions, cycle_queue, prediction_queue, published,
                 pred_published, settled, deliveries, manual, pc, cur, req, obj, orig,
                 deact, newPred, outcome, trail, before, prevMsg,
                 notification_preferences, notifications, pred_settled, pred_deliveries,
                 foreign, conn, attempts, sleeps, app, consumer_thread, cycles, symptoms,
                 publisher, requests, treq, pub_connection, pub_call, pub_accepted,
                 pub_calls, stops, updates, engine, today, abandoned, shared>>

\* The query raises: the except clause of process_pending_notifications
\* logs and returns 0.
SweepSelectRaises(s) ==
  /\ sweep[s].at = "idle"
  /\ sweeps < MaxSweeps
  /\ sweeps' = sweeps + 1
  /\ sweep' = [sweep EXCEPT ![s] =
                 [NoSweep EXCEPT !.at = "return", !.run = sweeps + 1,
                                 !.day = today, !.start = notifications,
                                 !.raised = TRUE, !.result = Some(0)]]
  /\ UNCHANGED <<cycle_analytics, predictions, cycle_queue, prediction_queue, published,
                 pred_published, settled, deliveries, manual, pc, cur, req, obj, orig,
                 deact, newPred, outcome, trail, before, prevMsg,
                 notification_preferences, notifications, pred_settled, pred_deliveries,
                 foreign, conn, attempts, sleeps, app, consumer_thread, cycles, symptoms,
                 publisher, requests, treq, pub_connection, pub_call, pub_accepted,
                 pub_calls, stops, updates, engine, today, abandoned, shared>>

\* The UPDATE a commit of send_notification issues for the object's id.
Marked(rows, id, status, sent_at, error_message) ==
  {IF r.id = id
   THEN [r EXCEPT !.status = status,
                  !.sent_at = IF sent_at = None THEN @ ELSE sent_at,
                  !.error_message = IF error_message = None THEN @ ELSE error_message]
   ELSE r : r \in rows}

\* send_notification returns True: status 'sent' and sent_at are committed.
SendNotification(s) ==
  /\ sweep[s].at = "send"
  /\ sweep[s].todo # <<>>
  /\ notifications' =
       Marked(notifications, Head(sweep[s].todo), "sent", Some(sweep[s].run), None)
  /\ sweep' = [sweep EXCEPT ![s].todo = Tail(@), ![s].sent_count = @ + 1]
  /\ UNCHANGED <<cycle_analytics, predictions, cycle_queue, prediction_queue, published,
                 pred_published, settled, deliveries, manual, pc, cur, req, obj, orig,
                 deact, newPred, outcome, trail, before, prevMsg,
                 notification_preferences, pred_settled, pred_deliveries, foreign, conn,
                 attempts, sleeps, app, consumer_thread, cycles, symptoms, publisher,
                 requests, treq, pub_connection, pub_call, pub_accepted, pub_calls,
                 stops, updates, engine, today, sweeps, abandoned, shared>>

\* The try block raises, its commit is rolled back, and the except clause
\* commits status 'failed' with the error message: returns False.
SendNotificationFails(s) ==
  /\ sweep[s].at = "send"
  /\ sweep[s].todo # <<>>
  /\ notifications' =
       Marked(notifications, Head(sweep[s].todo), "failed", None, Some("error"))
  /\ sweep' = [sweep EXCEPT ![s].todo = Tail(@)]
  /\ UNCHANGED <<cycle_analytics, predictions, cycle_queue, prediction_queue, published,
                 pred_published, settled, deliveries, manual, pc, cur, req, obj, orig,
                 deact, newPred, outcome, trail, before, prevMsg,
                 notification_preferences, pred_settled, pred_deliveries, foreign, conn,
                 attempts, sleeps, app, consumer_thread, cycles, symptoms, publisher,
                 requests, treq, pub_connection, pub_call, pub_accepted, pub_calls,
                 stops, updates, engine, today, sweeps, abandoned, shared>>

\* The commit of the except clause raises as well: the exception leaves
\* send_notification and ends the loop; process_pending_notifications
\* returns 0.
SendNotificationRaises(s) ==
  /\ sweep[s].at = "send"
  /\ sweep[s].todo # <<>>
  /\ sweep' = [sweep EXCEPT ![s].at = "return", ![s].raised = TRUE,
                            ![s].result = Some(0)]
  /\ UNCHANGED <<cycle_analytics, predictions, cycle_queue, prediction_queue, published,
                 pred_published, settled, deliveries, manual, pc, cur, req, obj, orig,
                 deact, newPred, outcome, trail, before, prevMsg,
                 notification_preferences, notifications, pred_settled, pred_deliveries,
                 foreign, conn, attempts, sleeps, app, consumer_thread, cycles, symptoms,
                 publisher, requests, treq, pub_connection, pub_call, pub_accepted,
                 pub_calls, stops, updates, engine, today, sweeps, abandoned, shared>>

\* return sent_count
SweepDone(s) ==
  /\ sweep[s].at = "send"
  /\ sweep[s].todo = <<>>
  /\ sweep' = [sweep EXCEPT ![s].at = "return",
                            ![s].result = Some(sweep[s].sent_count)]
  /\ UNCHANGED <<cycle_analytics, predictions, cycle_queue, prediction_queue, published,
                 pred_published, settled, deliveries, manual, pc, cur, req, obj, orig,
                 deact, newPred, outcome, trail, before, prevMsg,
                 notification_preferences, notifications, pred_settled, pred_deliveries,
                 foreign, conn, attempts, sleeps, app, consumer_thread, cycles, symptoms,
                 publisher, requests, treq, pub_connection, pub_call, pub_accepted,
                 pub_calls, stops, updates, engine, today, sweeps, abandoned, shared>>

\* process_notifications answers 200 with the count.
SweepRespond(s) ==
  /\ sweep[s].at = "return"
  /\ sweep' = [sweep EXCEPT ![s] = NoSweep]
  /\ UNCHANGED <<cycle_analytics, predictions, cycle_queue, prediction_queue, published,
                 pred_published, settled, deliveries, manual, pc, cur, req, obj, orig,
                 deact, newPred, outcome, trail, before, prevMsg,
                 notification_preferences, notifications, pred_settled, pred_deliveries,
                 foreign, conn, attempts, sleeps, app, consumer_thread, cycles, symptoms,
                 publisher, requests, treq, pub_connection, pub_call, pub_accepted,
                 pub_calls, stops, updates, engine, today, sweeps, abandoned, shared>>

\* ------------------------------------------------------------------- Spec
Init ==
  /\ cycle_analytics = {}
  /\ predictions = {}
  /\ cycle_queue = <<>>
  /\ prediction_queue = <<>>
  /\ published = 0
  /\ pred_published = 0
  /\ settled = [i \in 1..MaxEvents |-> <<>>]
  /\ deliveries = [i \in 1..MaxEvents |-> 0]
  /\ manual = 0
  /\ pc = [w \in Workers |-> "idle"]
  /\ cur = [w \in Workers |-> NoMsg]
  /\ req = [w \in Workers |-> 0]
  /\ obj = [w \in Workers |-> NoObj]
  /\ orig = [w \in Workers |-> NoObj]
  /\ deact = [w \in Workers |-> {}]
  /\ newPred = [w \in Workers |-> NoPred]
  /\ outcome = [w \in Workers |-> "none"]
  /\ trail = [w \in Workers |-> <<>>]
  /\ before = [w \in Workers |-> {}]
  /\ prevMsg = [w \in Workers |-> NoMsg]
  /\ notification_preferences = {}
  /\ notifications = {}
  /\ pred_settled = [i \in 1..MaxPredictionEvents |-> <<>>]
  /\ pred_deliveries = [i \in 1..MaxPredictionEvents |-> 0]
  /\ foreign = 0
  /\ conn = [k \in Connectors |-> "new"]
  /\ attempts = [k \in Connectors |-> 0]
  /\ sleeps = [k \in Connectors |-> 0]
  /\ app = "creating"
  /\ consumer_thread = FALSE
  /\ cycles = {}
  /\ symptoms = {}
  /\ publisher = "none"
  /\ requests = 0
  /\ treq = [t \in TrackingWorkers |-> NoReq]
  /\ pub_connection = [p \in Publishers |-> "none"]
  /\ pub_call = [p \in Publishers |-> NoCall]
  /\ pub_accepted = [p \in Publishers |-> 0]
  /\ pub_calls = [p \in Publishers |-> 0]
  /\ stops = 0
  /\ updates = 0
  /\ engine = NoRun
  /\ today = Date2024(2, 27)
  /\ sweeps = 0
  /\ sweep = [s \in SweepWorkers |-> NoSweep]
  /\ abandoned = 0
  /\ shared = NoPublisher

ConsumerStep(w) ==
  \/ Upsert(w) \/ UpsertRaises(w)
  \/ CommitAnalytics(w) \/ CommitAnalyticsRaises(w)
  \/ Predict(w) \/ PredictRaises(w) \/ Deactivate(w)
  \/ CommitPrediction(w) \/ CommitPredictionRaises(w)
  \/ Publish(w) \/ Ack(w) \/ Nack(w)

GenerateStep(r) ==
  \/ GenerateInsufficient(r) \/ GenerateCount(r) \/ GenerateDeactivate(r)
  \/ GenerateCommit(r) \/ GenerateCommitRaises(r) \/ GenerateFailed(r)
  \/ GeneratePublish(r)

\* The consumer thread and the request workers of one analytics service run
\* concurrently against the same store, on MaxWork events and requests in all.
Next ==
  \/ published + manual < MaxWork /\ PublishCycleEvent
  \/ \E w \in AnalyticsConsumers : Deliver(w) \/ ConsumerStep(w)
  \/ \E r \in GenerateWorkers :
       (published + manual < MaxWork /\ GenerateStart(r)) \/ GenerateStep(r)

Spec == Init /\ [][Next]_vars

\* Cycle events and generate requests handled one at a time: a delivery or a
\* request starts only when no worker is inside a handler.
Quiet == \A w \in Workers : pc[w] = "idle"

NextSeq ==
  \/ PublishCycleEvent
  \/ \E w \in AnalyticsConsumers : (Quiet /\ Deliver(w)) \/ ConsumerStep(w)
  \/ \E r \in GenerateWorkers : (Quiet /\ GenerateStart(r)) \/ GenerateStep(r)

SpecSeq == Init /\ [][NextSeq]_vars

NotificationStep(n) ==
  \/ NParse(n) \/ NParseRaises(n) \/ NPreferences(n) \/ NPreferencesRaises(n)
  \/ NReminder(n) \/ NReminderRaises(n) \/ NAck(n) \/ NNack(n)

\* Both consumers at work: cycle events reach the analytics consumer, whose
\* prediction events reach the notification consumer.
NextPipeline ==
  \/ PublishCycleEvent
  \/ PublishForeignPrediction
  \/ \E w \in AnalyticsConsumers : Deliver(w) \/ ConsumerStep(w)
  \/ \E n \in NotificationConsumers : NDeliver(n) \/ NotificationStep(n)

SpecPipeline == Init /\ [][NextPipeline]_vars

ConnectStep(k) ==
  \/ ConnectAttemptSucceeds(k) \/ RetryAfterFailure(k) \/ Sleep(k)
  \/ PublisherConnectFails(k)

\* The broker clients of the services connecting, and the notification
\* service starting up.
NextConn ==
  \/ StartConsumer \/ StartConsumerReturns \/ StartConsumerRaises
  \/ \E k \in Connectors : ConnectStart(k) \/ ConnectStep(k)

SpecConn == Init /\ [][NextConn]_vars

\* Each _connect runs on a thread the scheduler keeps running.
SpecConnFair == SpecConn /\ \A k \in Connectors : WF_vars(ConnectStep(k))

TrackingStep(t) ==
  \/ TrackingCommit(t) \/ TrackingCommitRaises(t) \/ TrackingFailed(t)
  \/ GetPublisher(t) \/ GetPublisherRaises(t) \/ TrackingPublish(t)
  \/ TrackingRespond(t)

\* The mutating routes of the cycle-tracking service.
NextTracking ==
  \/ ConnectionLost
  \/ \E t \in TrackingWorkers :
       \/ CreateCycleStart(t) \/ CreateCycleRejected(t)
       \/ UpdateCycleStart(t) \/ UpdateCycleNotFound(t)
       \/ CreateSymptomStart(t) \/ CreateSymptomNotFound(t)
       \/ TrackingStep(t)

SpecTracking == Init /\ [][NextTracking]_vars

PublishStep(p) ==
  \/ PublishReconnects(p) \/ PublishConnected(p) \/ BasicPublish(p)
  \/ PublishReturns(p)

\* The two publishers at work while the broker may close their connections.
NextPublish ==
  \/ GetCyclePublisher \/ NewPredictionPublisher
  \/ \E p \in Publishers : ConnectionDrops(p) \/ PublishStep(p)
  \/ AbandonedConnectionEnds

SpecPublish == Init /\ [][NextPublish]_vars

\* What the step puts in notification_prediction_queue.
LastQueued == prediction_queue'[Len(prediction_queue')]

\* The step queues a body that is not JSON, within the events this
\* specification looks at.
NotJSON == LastQueued.kind = "badjson" /\ pred_published < MaxReminderEvents

\* The notification service: prediction events arrive while users change
\* their preferences.
NextReminder ==
  \/ PublishPredictionEvent
  \/ PublishForeignPrediction /\ NotJSON
  \/ \E user_id \in Users : update_preferences(user_id) \/ get_preferences(user_id)
  \/ \E n \in NotificationConsumers : NDeliver(n) \/ NotificationStep(n)

SpecReminder == Init /\ [][NextReminder]_vars

\* The notification consumer, stopped and restarted, with its durable queue
\* at the broker.
NextRestart ==
  \/ PublishPredictionEvent /\ LastQueued.user_id = 1
  \/ PublishForeignPrediction /\ NotJSON
  \/ \E n \in NotificationConsumers :
       \/ NDeliver(n) \/ NotificationStep(n)
       \/ ConsumerStops(n) \/ ConsumerRestarts(n)

SpecRestart == Init /\ [][NextRestart]_vars

\* The consumer thread keeps running, a stopped service is started again, and
\* the broker keeps delivering to a consumer that can take a message.
SpecRestartFair ==
  /\ SpecRestart
  /\ \A n \in NotificationConsumers :
       /\ WF_vars(NDeliver(n))
       /\ WF_vars(NotificationStep(n))
       /\ WF_vars(ConsumerRestarts(n))

\* The well-formed events of one user's cycles, and the body that is not JSON.
OwnBodies ==
  {b \in EventBodies : b.kind = "badjson" \/ (b.kind = "ok" /\ b.user_id = 1)}

\* The two consumers, each taking deliveries from its queue, on one user's
\* events.
NextConsumers ==
  \/ PublishCycleEvent /\ Body(cycle_queue'[Len(cycle_queue')]) \in OwnBodies
  \/ PublishForeignPrediction /\ LastQueued.kind = "badjson"
  \/ \E w \in AnalyticsConsumers : Deliver(w) \/ ConsumerStep(w)
  \/ \E n \in NotificationConsumers : NDeliver(n) \/ NotificationStep(n)

SpecConsumers == Init /\ [][NextConsumers]_vars

\* The prediction engine applied to the histories table cycle_analytics can
\* hold.
NextEngine ==
  \/ AddHistoryRow
  \/ \E user_id \in Users : RunEngine(user_id)

SpecEngine == Init /\ [][NextEngine]_vars

SweepStep(s) ==
  \/ SweepSelect(s) \/ SweepSelectRaises(s)
  \/ SendNotification(s) \/ SendNotificationFails(s) \/ SendNotificationRaises(s)
  \/ SweepDone(s) \/ SweepRespond(s)

\* Reminders are created from prediction events while the days pass and
\* POST /notifications/process is called, one call at a time.
NextSweep ==
  \/ PublishPredictionEvent
  \/ PublishForeignPrediction /\ NotJSON
  \/ \E n \in NotificationConsumers : NDeliver(n) \/ NotificationStep(n)
  \/ Midnight
  \/ SweepStep("s1")

SpecSweep == Init /\ [][NextSweep]_vars

\* The same with calls of POST /notifications/process served concurrently.
NextSweeps ==
  \/ PublishPredictionEvent
  \/ PublishForeignPrediction /\ NotJSON
  \/ \E n \in NotificationConsumers : NDeliver(n) \/ NotificationStep(n)
  \/ Midnight
  \/ \E s \in SweepWorkers : SweepStep(s)

SpecSweeps == Init /\ [][NextSweeps]_vars

\* The pipeline with the broker reachable and no failing handler: every
\* publish is accepted, every query and commit succeeds.
NextRouted ==
  \/ /\ PublishCycleEvent
     /\ cycle_queue' # <<>> => Body(cycle_queue'[Len(cycle_queue')]).kind = "ok"
  \/ \E w \in AnalyticsConsumers :
       \/ Deliver(w) \/ Upsert(w) \/ CommitAnalytics(w) \/ Predict(w)
       \/ Deactivate(w) \/ CommitPrediction(w)
       \/ Publish(w) /\ pred_published' = pred_published + 1
       \/ Ack(w)
  \/ \E n \in NotificationConsumers :
       NDeliver(n) \/ NParse(n) \/ NPreferences(n) \/ NReminder(n) \/ NAck(n)

SpecRouted == Init /\ [][NextRouted]_vars

\* start_consuming keeps each consumer thread taking deliveries and running
\* its callback to the end.
SpecRoutedFair ==
  /\ SpecRouted
  /\ \A w \in AnalyticsConsumers :
       WF_vars(\/ Deliver(w) \/ Upsert(w) \/ CommitAnalytics(w) \/ Predict(w)
               \/ Deactivate(w) \/ CommitPrediction(w)
               \/ Publish(w) /\ pred_published' = pred_published + 1
               \/ Ack(w))
  /\ \A n \in NotificationConsumers :
       WF_vars(NDeliver(n) \/ NParse(n) \/ NPreferences(n) \/ NReminder(n) \/ NAck(n))

\* Two instances of the analytics consumer on queue analytics_cycle_queue,
\* the broker handing each of them one delivery at a time.
NextScaled ==
  \/ /\ PublishCycleEvent
     /\ LET b == Body(cycle_queue'[Len(cycle_queue')])
        IN b.kind = "ok" /\ b.user_id = 1
  \/ \E w \in ConsumerInstances :
       \/ Deliver(w) \/ Upsert(w) \/ CommitAnalytics(w) \/ Predict(w)
       \/ Deactivate(w) \/ CommitPrediction(w) \/ Publish(w) \/ Ack(w)

SpecScaled == Init /\ [][NextScaled]_vars

\* At-least-once delivery: a publisher repeats a cycle event, and the
\* notification consumer stops while it holds a delivery, which the broker
\* delivers again after the restart.
NextRedelivery ==
  \/ NextConsumers
  \/ \E n \in NotificationConsumers : ConsumerStops(n) \/ ConsumerRestarts(n)

SpecRedelivery == Init /\ [][NextRedelivery]_vars

\* A running notification service whose consume loop can fail.
NextLoop ==
  \/ PublishPredictionEvent /\ LastQueued.user_id = 1
  \/ PublishForeignPrediction /\ NotJSON
  \/ \E n \in NotificationConsumers :
       NDeliver(n) \/ NotificationStep(n) \/ ConsumeLoopRaises(n)

SpecLoop == Init /\ [][NextLoop]_vars

\* The consumer thread, while it lives, keeps taking deliveries and running
\* its callback.
SpecLoopFair ==
  /\ SpecLoop
  /\ \A n \in NotificationConsumers :
       WF_vars(NDeliver(n)) /\ WF_vars(NotificationStep(n))

\* The request workers of the cycle-tracking service, each publishing the
\* event of the cycle it has committed.
PublishRequestStep(t) ==
  \/ CreateCycleCommitted(t) \/ GetPublisherReads(t) \/ GetPublisherCreates(t)
  \/ PublishBegins(t) \/ PublishEnds(t)

NextShared == \E t \in RequestWorkers : PublishRequestStep(t)

SpecShared == Init /\ [][NextShared]_vars

\* The cycle routes of the tracking service feeding the analytics consumer:
\* an update of a cycle sends a second event for the cycle id of its create.
NextUpdates ==
  \/ \E t \in TrackingWorkers :
       \/ requests < MaxCycleRequests /\ (CreateCycleStart(t) \/ UpdateCycleStart(t))
       \/ TrackingCommit(t) \/ GetPublisher(t) \/ TrackingPublish(t)
       \/ TrackingRespond(t)
  \/ \E w \in AnalyticsConsumers :
       \/ Deliver(w) \/ Upsert(w) \/ CommitAnalytics(w)
       \/ Predict(w) \/ Deactivate(w) \/ CommitPrediction(w)
       \/ Publish(w) \/ Ack(w)

SpecUpdates == Init /\ [][NextUpdates]_vars

\* The whole path of a reminder: cycle events, the predictions the analytics
\* consumer derives from them (each new one deactivating the user's older
\* ones), the reminders of the notification consumer, and the calls of
\* POST /notifications/process while the days pass.
NextSuperseded ==
  \/ NextRouted
  \/ Midnight
  \/ SweepStep("s1")

SpecSuperseded == Init /\ [][NextSuperseded]_vars

\* ================================================================= claims
Active(preds, user_id) == {p \in preds : p.user_id = user_id /\ p.is_active}
Ids(preds) == {p.id : p \in preds}
Last(t) == IF t = <<>> THEN "" ELSE t[Len(t)]
RowsOfCycle(rows, cycle_id) == {r \in rows : r.cycle_id = cycle_id}
UserOf(w) == IF w \in GenerateWorkers THEN req[w] ELSE cur[w].user_id

\* C1: with a consumer handler and the manual generate route running
\* concurrently for one user, every committed state has at most one active
\* Prediction per user.
C1_AtMostOneActive ==
  \A u \in Users : Cardinality(Active(predictions, u)) <= 1

\* A commit that creates a prediction leaves it the only active one of its
\* user, under an id no prediction had.
C2_CreatedIsTheActiveOne ==
  \A w \in Workers :
    (Last(trail'[w]) = "commit_prediction" /\ trail'[w] # trail[w]) =>
      /\ newPred'[w] \in predictions'
      /\ Active(predictions', newPred'[w].user_id) = {newPred'[w]}
      /\ newPred'[w].id \notin Ids(predictions)

\* Every prediction is still there after a step, changed at most in
\* is_active, and active only if it was.
C2_NeverDeletedNorReactivated ==
  \A p \in predictions :
    \E q \in predictions' :
      /\ [q EXCEPT !.is_active = TRUE] = [p EXCEPT !.is_active = TRUE]
      /\ q.is_active => p.is_active

\* C2: with events and requests handled one at a time, each user has at most
\* one active Prediction; a commit that creates a prediction leaves it the
\* only active one of its user; no Prediction is deleted and none goes from
\* inactive back to active.
C2_SequentialOneActive ==
  /\ [](\A u \in Users : Cardinality(Active(predictions, u)) <= 1)
  /\ [][C2_CreatedIsTheActiveOne /\ C2_NeverDeletedNorReactivated]_vars

\* A second prediction of a user has superseded the first.
C2_Witness ==
  /\ Quiet
  /\ \E p, q \in predictions : p.user_id = q.user_id /\ ~p.is_active /\ q.is_active

\* A step that deactivates a committed prediction inserts a new active one
\* of the same user.
C3_DeactivationComesWithInsert ==
  \A p \in predictions :
    (p.is_active /\ [p EXCEPT !.is_active = FALSE] \in predictions') =>
      \E n \in predictions' :
        n.id \notin Ids(predictions) /\ n.user_id = p.user_id /\ n.is_active

\* A step in which the insert or its commit fails changes no prediction.
C3_FailureKeepsPredictions ==
  \A w \in Workers :
    (Last(trail'[w]) = "raise_commit_prediction" /\ trail'[w] # trail[w]) =>
      predictions' = predictions

\* C3: in the consumer handler and in the generate route, a committed step
\* that deactivates a prediction also inserts the new active prediction of
\* that user, and a step in which the insert or commit fails leaves every
\* committed prediction as it was (the previously active one still active).
C3_AtomicSupersede ==
  [][C3_DeactivationComesWithInsert /\ C3_FailureKeepsPredictions]_vars

\* One prediction was superseded, and a later insert failed with the user's
\* active prediction still in place.
C3_Witness ==
  /\ \E p, q \in predictions : p.user_id = q.user_id /\ ~p.is_active /\ q.is_active
  /\ \E w \in Workers :
       /\ Last(trail[w]) = "raise_commit_prediction"
       /\ Active(predictions, UserOf(w)) # {}

\* C4: when the same cycle event has been processed a second time, right
\* after its first processing, its cycle id has exactly one row and every
\* field of the row is as the first processing left it.
C4_ReplayLeavesRowUnchanged ==
  \A w \in AnalyticsConsumers :
    (pc[w] = "ack" /\ prevMsg[w] = Body(cur[w])) =>
      /\ Cardinality(RowsOfCycle(cycle_analytics, cur[w].cycle_id)) = 1
      /\ RowsOfCycle(cycle_analytics, cur[w].cycle_id)
           = RowsOfCycle(before[w], cur[w].cycle_id)

RaiseLabels ==
  {"raise_parse", "raise_commit_analytics", "raise_predict",
   "raise_commit_prediction", "raise_store", "raise_date"}
Raised(t) == \E i \in 1..Len(t) : t[i] \in RaiseLabels
Consumers == AnalyticsConsumers \cup NotificationConsumers

\* C5: every message delivered to either consumer is delivered once and
\* settled once; it is acknowledged only when no exception was raised while
\* it was handled, and negatively acknowledged (dropped, never put back on
\* the queue) only when one was.
C5_SettledOnceByOutcome ==
  /\ \A w \in Consumers :
       /\ pc[w] = "ack" => ~Raised(trail[w])
       /\ pc[w] = "nack" => Raised(trail[w])
  /\ \A i \in 1..MaxEvents : Len(settled[i]) <= 1 /\ deliveries[i] <= 1
  /\ \A i \in 1..MaxPredictionEvents :
       Len(pred_settled[i]) <= 1 /\ pred_deliveries[i] <= 1

\* C6: when the handler raised while processing a cycle event, the
\* CycleAnalytics rows are as they were when the event was delivered.
C6_RaiseLeavesAnalyticsUntouched ==
  \A w \in AnalyticsConsumers :
    pc[w] = "nack" => cycle_analytics = before[w]

\* C7: a cycle event is acknowledged only after its CycleAnalytics row was
\* committed and, when the user then has at least 2 rows, after the new
\* Prediction was committed and the publish was attempted, in that order;
\* the row of an event about to be acknowledged is in the store.
C7_AckImpliesDurableAnalytics ==
  \A w \in AnalyticsConsumers :
    pc[w] = "ack" =>
      /\ RowsOfCycle(cycle_analytics, cur[w].cycle_id) # {}
      /\ IF Cardinality(UserRows(cycle_analytics, cur[w].user_id)) >= 2
         THEN /\ trail[w] = <<"commit_analytics", "commit_prediction", "publish_attempt">>
              /\ \E p \in predictions : p.user_id = cur[w].user_id
         ELSE trail[w] = <<"commit_analytics">>

\* An event of a user with two rows is about to be acknowledged.
C7_Witness ==
  \E w \in AnalyticsConsumers :
    /\ pc[w] = "ack"
    /\ trail[w] = <<"commit_analytics", "commit_prediction", "publish_attempt">>
    /\ RowsOfCycle(cycle_analytics, cur[w].cycle_id) # {}

Ended == {"connected", "raised", "unconnected"}

\* C8 as stated: every connect operation that ends without a connection,
\* the analytics publisher's included, has made 5 attempts with a wait
\* after each of the first 4 and has raised.
C8_EveryConnectRetriesThenRaises ==
  \A k \in Connectors :
    (conn[k] \in Ended /\ conn[k] # "connected") =>
      /\ conn[k] = "raised"
      /\ attempts[k] = max_retries
      /\ sleeps[k] = max_retries - 1

\* The retrying connects: at most 5 attempts, one wait after each failed
\* attempt but the last, an end without connection only by raising after
\* the 5th failure.
C8_RetryBounded ==
  \A k \in RetryConnectors :
    /\ attempts[k] <= max_retries
    /\ conn[k] # "unconnected"
    /\ conn[k] = "connected" => sleeps[k] = attempts[k] - 1
    /\ conn[k] = "sleeping" => sleeps[k] = attempts[k] - 1
    /\ conn[k] = "trying" => sleeps[k] = attempts[k]
    /\ conn[k] = "raised" =>
         attempts[k] = max_retries /\ sleeps[k] = max_retries - 1

\* The analytics publisher connect: one attempt, no wait, never raises.
C8_PublisherSingleAttempt ==
  LET k == "analytics_publisher"
  IN /\ attempts[k] <= 1
     /\ sleeps[k] = 0
     /\ conn[k] # "raised"
     /\ conn[k] \in Ended => attempts[k] = 1

\* C8 as amended: every connect operation terminates.  The consumer connects
\* and the cycle-tracking publisher connect return on the first successful
\* attempt, make at most 5 attempts with one wait after each failed attempt
\* but the last, and raise after the 5th failure.  The analytics publisher
\* connect makes one attempt and, when it fails, returns without a
\* connection and without raising.
C8_ConnectTerminates ==
  /\ [](C8_RetryBounded /\ C8_PublisherSingleAttempt)
  /\ \A k \in Connectors : (conn[k] = "trying") ~> (conn[k] \in Ended)

\* One connect raised after its 5th attempt, one returned on its 3rd, and
\* the analytics publisher's returned without a connection.
C8_Witness ==
  /\ conn["analytics_consumer"] = "raised"
  /\ conn["cycle_publisher"] = "connected" /\ attempts["cycle_publisher"] = 3
  /\ conn["analytics_publisher"] = "unconnected"

\* C9: the notification service reaches the running state only with a
\* connected consumer whose thread was started.
C9_RunningImpliesConsumer ==
  app = "running" =>
    conn["notification_consumer"] = "connected" /\ consumer_thread

TrackingTrails ==
  {<<>>, <<"commit">>, <<"commit", "published">>, <<"commit", "raise_publish">>,
   <<"commit", "raise_get_publisher">>, <<"raise_commit">>}

C10_Answered(t) == pc[t] # "idle" /\ pc'[t] = "idle"

\* A step of a request: a cycle event enters the queue only as the publish
\* of a committed request; once committed, no stored row changes, the
\* request's record is stored and its answer is the success status; after a
\* failed commit nothing is published and the answer is 500.
C10_Step ==
  \A t \in TrackingWorkers :
    /\ (cycle_queue' # cycle_queue) =>
         /\ trail[t] = <<"commit">>
         /\ trail'[t] = <<"commit", "published">>
    /\ (trail[t] # <<>> /\ trail[t][1] = "commit") =>
         /\ cycles' = cycles /\ symptoms' = symptoms
         /\ IF treq[t].op = "create_symptom"
            THEN treq[t].row \in symptoms ELSE treq[t].row \in cycles
         /\ C10_Answered(t) => outcome'[t] = SuccessStatus(treq[t].op)
    /\ (trail[t] = <<"raise_commit">>) =>
         /\ cycle_queue' = cycle_queue
         /\ C10_Answered(t) => outcome'[t] = "500"

\* C10: in create_cycle, update_cycle and create_symptom the commit comes
\* before any publish step; a failure to obtain the publisher or to publish
\* changes no stored row and the request still answers with its success
\* status and its record stored; a request whose commit failed publishes
\* nothing.
C10_CommitThenBestEffortPublish ==
  /\ [](\A t \in TrackingWorkers : trail[t] \in TrackingTrails)
  /\ [][C10_Step]_vars

\* An update was committed, its publish failed, and the request is about
\* to answer; an earlier request's event is in the queue.
C10_Witness ==
  \E t \in TrackingWorkers :
    /\ pc[t] = "t_respond"
    /\ trail[t] = <<"commit", "raise_publish">>
    /\ treq[t].op = "update_cycle"
    /\ treq[t].row \in cycles
    /\ Len(cycle_queue) = 1

PublishDone(p) == pub_call[p].at = "returned"

OneReconnect(p) ==
  pub_call[p].reconnects = IF pub_call[p].closed_at_call THEN 1 ELSE 0

NothingPublished(p) == pub_accepted[p] = pub_call[p].accepted_at_call

\* C11: a publish on an absent or closed connection performs one reconnect
\* before publishing; if that reconnect fails, nothing is published and the
\* caller of publish gets the failure.
C11_ReconnectOnceElseSurfaced ==
  \A p \in Publishers :
    PublishDone(p) =>
      /\ OneReconnect(p)
      /\ pub_call[p].failed =>
           NothingPublished(p) /\ pub_call[p].result = "raised"

\* C11 (amended): a publish on an absent or closed connection performs one
\* reconnect before publishing; if that reconnect fails, nothing is published
\* and the failure is swallowed inside publish, which returns normally to its
\* caller.
C11_ReconnectOnceElseSwallowed ==
  \A p \in Publishers :
    PublishDone(p) =>
      /\ OneReconnect(p)
      /\ pub_call[p].failed =>
           NothingPublished(p) /\ pub_call[p].result = "returned"

C11_Witness ==
  /\ \A p \in Publishers : PublishDone(p) /\ pub_call[p].failed
  /\ \E p \in Publishers : pub_accepted[p] > 0

Ready(i) == \E k \in 1..Len(prediction_queue) : prediction_queue[k].id = i

Held(i) == \E n \in NotificationConsumers : cur[n].id = i

\* C12: with the consumer's durable queue declared and bound, an event
\* published while the consumer is stopped, or delivered but not settled when
\* it stops, is not lost: it stays at the broker until settled, and once the
\* consumer has restarted it is eventually delivered to it.
C12_NotLostAndRedelivered ==
  /\ [](\A i \in 1..pred_published : Ready(i) \/ Held(i) \/ pred_settled[i] # <<>>)
  /\ \A i \in 1..MaxPredictionEvents : Ready(i) ~> Held(i)

C12_Witness ==
  /\ stops > 0
  /\ pred_deliveries[1] = 2
  /\ pred_settled[1] # <<>>
  /\ Held(2)

Unsettled == {i \in 1..MaxEvents : deliveries[i] > Len(settled[i])}

PredUnsettled ==
  {i \in 1..MaxPredictionEvents : pred_deliveries[i] > Len(pred_settled[i])}

\* C13: each consumer holds at most one delivered-but-unsettled message at a
\* time, and messages are handled in delivery order: a message is delivered,
\* and its handling starts, only when every message published to the queue
\* before it has been delivered and settled.
C13_OneUnsettledInOrder ==
  /\ [](Cardinality(Unsettled) <= 1 /\ Cardinality(PredUnsettled) <= 1)
  /\ [][/\ \A i \in 1..MaxEvents :
             deliveries'[i] > deliveries[i] =>
               /\ Unsettled = {}
               /\ \A j \in 1..(i - 1) : settled[j] # <<>>
        /\ \A i \in 1..MaxPredictionEvents :
             pred_deliveries'[i] > pred_deliveries[i] =>
               /\ PredUnsettled = {}
               /\ \A j \in 1..(i - 1) : pred_settled[j] # <<>>]_vars

C13_Witness ==
  /\ Unsettled = {2}
  /\ settled[1] # <<>>
  /\ cycle_queue # <<>>
  /\ PredUnsettled # {}

\* The user's rows that have a cycle length, and among them those with fewer
\* than 6 rows starting later.
Samples(user_id) ==
  {r \in cycle_analytics : r.user_id = user_id /\ r.cycle_length # None}

Recent(user_id) ==
  {r \in Samples(user_id) :
     Cardinality({o \in Samples(user_id) : o.start_date > r.start_date}) < 6}

RECURSIVE Total(_)
Total(lengths) ==
  IF lengths = <<>> THEN 0 ELSE Head(lengths) + Total(Tail(lengths))

\* The cycle lengths of a set of rows, latest row first.
RECURSIVE LengthsOf(_)
LengthsOf(rows) ==
  IF rows = {} THEN <<>>
  ELSE LET r == CHOOSE x \in rows : \A o \in rows : o.start_date <= x.start_date
       IN <<Val(r.cycle_length)>> \o LengthsOf(rows \ {r})

EngineRan == engine # NoRun

RecentLengths == LengthsOf(Recent(engine.user_id))

\* C14: the average is the arithmetic mean of the cycle lengths of the at
\* most 6 latest rows of the user that have a cycle length, and the default
\* 28 when the user has no such row.
C14_AverageOfRecentSix ==
  EngineRan =>
    IF RecentLengths = <<>>
    THEN engine.average = 28 * AvgScale
    ELSE engine.average * Len(RecentLengths) = Total(RecentLengths) * AvgScale

C14_Witness ==
  /\ EngineRan
  /\ Cardinality(Samples(engine.user_id)) = 7
  /\ engine.average = 28 * AvgScale
  /\ \E r \in Samples(engine.user_id) : r.cycle_length = Some(33)

\* The squared deviations from the mean, each times the square of the count.
RECURSIVE SquaredDeviations(_, _, _)
SquaredDeviations(lengths, total, count) ==
  IF lengths = <<>> THEN 0
  ELSE (count * Head(lengths) - total) * (count * Head(lengths) - total)
         + SquaredDeviations(Tail(lengths), total, count)

\* C15: the variance is never negative, is 0 with fewer than 2 cycle-length
\* samples, and is otherwise the population variance of the at most 6 most
\* recent cycle lengths: the squared deviations from their mean, summed and
\* divided by their count.
C15_PopulationVariance ==
  EngineRan =>
    LET count == Len(RecentLengths)
    IN /\ engine.variance >= 0
       /\ Cardinality(Samples(engine.user_id)) < 2 => engine.variance = 0
       /\ Cardinality(Samples(engine.user_id)) >= 2 =>
            engine.variance * count * count * count =
              SquaredDeviations(RecentLengths, Total(RecentLengths), count) * VarScale

C15_Witness ==
  /\ EngineRan
  /\ Cardinality(Samples(engine.user_id)) = 7
  /\ engine.variance > 5 * VarScale

Predicted == EngineRan /\ engine.prediction # NoPred

\* The variances 0, 0.5, 1, ... 10.
VarianceGrid == {(k * VarScale) \div 2 : k \in 0..20}

\* C16: the confidence of a prediction is decided by the variance alone: 0.9
\* below 2, 0.75 from 2 to below 5, 0.6 from 5 on; no smaller variance has a
\* lower confidence, no larger one a higher, and it lies within [0, 1].
C16_ConfidenceBands ==
  Predicted =>
    LET confidence == engine.prediction.confidence_score
    IN /\ engine.variance < 2 * VarScale => confidence = 90
       /\ (2 * VarScale <= engine.variance /\ engine.variance < 5 * VarScale) =>
            confidence = 75
       /\ engine.variance >= 5 * VarScale => confidence = 60
       /\ 0 <= confidence /\ confidence <= 100
       /\ \A variance \in VarianceGrid :
            /\ variance <= engine.variance => Confidence(variance) >= confidence
            /\ variance >= engine.variance => Confidence(variance) <= confidence

C16_Witness ==
  /\ Predicted
  /\ engine.prediction.confidence_score = 75

\* round(): to the nearest integer, a tie to the even one.
RoundNearest(average) ==
  LET whole == average \div AvgScale
      rest == average % AvgScale
  IN IF 2 * rest < AvgScale THEN whole
     ELSE IF 2 * rest > AvgScale THEN whole + 1
     ELSE IF whole % 2 = 0 THEN whole ELSE whole + 1

LatestStart(user_id) ==
  CHOOSE d \in {r.start_date : r \in UserRows(cycle_analytics, user_id)} :
    \A r \in UserRows(cycle_analytics, user_id) : r.start_date <= d

\* C17: for a user with at least one row the predicted start date is the
\* start date of the user's latest row plus the average cycle length rounded
\* to the nearest integer, in days; for a user with no row nothing is
\* returned.
C17_PredictedByRoundedAverage ==
  EngineRan =>
    IF UserRows(cycle_analytics, engine.user_id) = {}
    THEN engine.prediction = NoPred
    ELSE /\ engine.prediction # NoPred
         /\ engine.prediction.predicted_start_date =
              LatestStart(engine.user_id) + RoundNearest(engine.average)

ScenarioRows ==
  {r \in cycle_analytics : r.user_id = 1}

Handling(n) == cur[n] # NoMsg

ReminderRaised(n) ==
  /\ trail'[n] # trail[n]
  /\ Last(trail'[n]) \in {"raise_store", "raise_date"}

\* The preference row create_period_reminder works with: the stored one, or
\* the default one it creates.
PreferenceFor(user_id) ==
  IF PreferencesOf(notification_preferences, user_id) = {}
  THEN DefaultPreference(user_id)
  ELSE CHOOSE r \in PreferencesOf(notification_preferences, user_id) : TRUE

\* C19: for a prediction event of a user whose reminders are enabled the
\* scheduler goes on to insert, and unless the store fails it inserts exactly
\* one Notification: pending, with the event's prediction id, scheduled for
\* the predicted start date minus the reminder_days_before it read.
C19_OneReminderPerEvent ==
  [][\A n \in NotificationConsumers :
       /\ (/\ pc[n] = "n_preferences" /\ pc'[n] # "n_preferences"
           /\ PreferenceFor(cur[n].user_id).period_reminder_enabled
           /\ ~ReminderRaised(n))
            => /\ pc'[n] = "n_reminder"
               /\ obj'[n] = PreferenceFor(cur[n].user_id)
       /\ (pc[n] = "n_reminder" /\ pc'[n] # "n_reminder" /\ ~ReminderRaised(n))
            => \E row \in notifications' \ notifications :
                 /\ notifications' = notifications \cup {row}
                 /\ row.user_id = cur[n].user_id
                 /\ row.status = "pending"
                 /\ row.prediction_id = cur[n].prediction_id
                 /\ row.scheduled_for =
                      Val(cur[n].predicted_start_date) - obj[n].reminder_days_before
  ]_vars

C19_Witness ==
  \E n \in NotificationConsumers :
    /\ pc[n] = "ack"
    /\ trail[n] # <<>> /\ Last(trail[n]) = "commit_notification"
    /\ cur[n].predicted_start_date = Some(Date2024(3, 1))
    /\ PreferenceFor(cur[n].user_id).reminder_days_before = 3
    /\ \E row \in notifications :
         /\ row.prediction_id = cur[n].prediction_id
         /\ row.scheduled_for = Date2024(2, 27)
         /\ row.status = "pending"

Disabled(user_id) ==
  \E r \in PreferencesOf(notification_preferences, user_id) :
    ~r.period_reminder_enabled

\* C20: a parsable event handled while the user's period_reminder_enabled is
\* false (the handler has not read the preference as enabled) creates no
\* Notification and changes none, and is acknowledged, not negatively
\* acknowledged.
C20_DisabledMeansNoReminder ==
  [][\A n \in NotificationConsumers :
       (/\ Handling(n) /\ cur[n].kind # "badjson"
        /\ Disabled(cur[n].user_id) /\ pc[n] # "n_reminder")
         => /\ notifications' = notifications
            /\ pc'[n] \notin {"n_reminder", "nack"}
            /\ pc'[n] = "idle" =>
                 pred_settled'[cur[n].id] = Append(pred_settled[cur[n].id], "ack")
  ]_vars

C20_Witness ==
  \E n \in NotificationConsumers :
    /\ pc[n] = "ack"
    /\ trail[n] = <<>>
    /\ cur[n].kind = "ok"
    /\ Disabled(cur[n].user_id)
    /\ \E row \in notifications : row.user_id = cur[n].user_id

Returned(s) == sweep[s].at = "return" /\ ~sweep[s].raised

WasDue(s, row) == row.status = "pending" /\ row.scheduled_for <= sweep[s].day

RowOf(id) == CHOOSE r \in notifications : r.id = id

\* C21: a run of process_pending_notifications that no store error ended has
\* moved every notification that was pending with scheduled_for <= today to
\* sent or failed, returns the number it marked sent, and has left every
\* other notification as it was.
C21_SweepMovesDueOnly ==
  Returned("s1") =>
    LET s == "s1"
        due == {r \in sweep[s].start : WasDue(s, r)}
    IN /\ \A r \in due : RowOf(r.id).status \in {"sent", "failed"}
       /\ sweep[s].result =
            Some(Cardinality({r \in due : RowOf(r.id).status = "sent"}))
       /\ \A r \in sweep[s].start \ due : r \in notifications

C21_Witness ==
  /\ Returned("s1")
  /\ sweep["s1"].result = Some(1)
  /\ \E r \in sweep["s1"].start :
       r.status = "pending" /\ r.scheduled_for > sweep["s1"].day

Terminal(row) == row.status \in {"sent", "failed"}

\* C22: the status of a notification only changes from pending to sent or
\* from pending to failed, and a notification that is sent or failed is never
\* changed again.
C22_TerminalNeverChanges ==
  [][\A r \in notifications :
       /\ Terminal(r) => r \in notifications'
       /\ \A q \in notifications' :
            q.id = r.id /\ q.status # r.status => r.status = "pending"]_vars

Acked(i) == \E k \in DOMAIN settled[i] : settled[i][k] = "ack"

Announced(p) ==
  \/ \E k \in DOMAIN prediction_queue : prediction_queue[k].prediction_id = p.id
  \/ \E n \in NotificationConsumers :
       pc[n] # "idle" /\ cur[n].prediction_id = p.id
  \/ \E r \in notifications : r.prediction_id = p.id

ReminderPending(p) ==
  \E r \in notifications :
    r.prediction_id = p /\ r.status = "pending" /\
    \E q \in predictions : q.id = p /\ q.user_id = r.user_id

\* C23: with the broker reachable and no failing handler, a cycle event
\* published with key cycle.new reaches the analytics consumer and is
\* processed; when the user then has at least two CycleAnalytics rows the
\* processing has published the event of a new prediction, which reaches the
\* notification consumer; and every prediction eventually has a pending
\* Notification that references it.
C23_EventReachesReminder ==
  /\ \A i \in 1..MaxEvents : (published >= i) ~> Acked(i)
  /\ [](\A w \in AnalyticsConsumers :
          pc[w] = "ack" /\ Cardinality(UserRows(cycle_analytics, cur[w].user_id)) >= 2
            => \E p \in predictions :
                 p.user_id = cur[w].user_id /\ p.is_active /\ Announced(p))
  /\ \A p \in 1..MaxEvents :
       (\E q \in predictions : q.id = p) ~> ReminderPending(p)

C23_Witness ==
  /\ published = MaxEvents
  /\ \A i \in 1..MaxEvents : Acked(i)
  /\ Cardinality(predictions) >= 2
  /\ \A q \in predictions : ReminderPending(q.id)

AnalyticsQuiet ==
  /\ cycle_queue = <<>>
  /\ \A w \in AnalyticsConsumers : pc[w] = "idle"

BodyOf(row) == CHOOSE b \in EventBodies : b.kind = "ok" /\ b.cycle_id = row.cycle_id

Orders(S) ==
  {o \in [1..Cardinality(S) -> S] :
     \A i, j \in 1..Cardinality(S) : i # j => o[i] # o[j]}

RECURSIVE HandledAll(_, _)
HandledAll(rows, order) ==
  IF order = <<>> THEN rows
  ELSE HandledAll(Handled(rows, Head(order)), Tail(order))

WithoutId(rows) == {[r EXCEPT !.id = 0] : r \in rows}

\* C24: when one event for each of several cycles of a user has been
\* processed, the user's rows are the rows every processing order of these
\* events ends with.
C24_OrderIndependent ==
  AnalyticsQuiet /\ Cardinality(cycle_analytics) = published =>
    \A u \in Users :
      \A order \in Orders({BodyOf(r) : r \in UserRows(cycle_analytics, u)}) :
        WithoutId(HandledAll({}, order)) = WithoutId(UserRows(cycle_analytics, u))

\* C25: the store never holds two CycleAnalytics rows for one cycle id, also
\* when two consumer instances process events of that cycle concurrently.
C25_OneRowPerCycle ==
  \A c \in Cycles : Cardinality({r \in cycle_analytics : r.cycle_id = c}) <= 1

RowOfCycle(rows, c) == CHOOSE r \in rows : r.cycle_id = c

EarlierRows(rows, row) ==
  {r \in rows : r.user_id = row.user_id /\ r.start_date < row.start_date}

DaysSincePrevious(rows, row) ==
  row.start_date -
    (CHOOSE p \in EarlierRows(rows, row) :
       \A q \in EarlierRows(rows, row) : q.start_date <= p.start_date).start_date

Committed(w) == pc[w] = "commit" /\ pc'[w] = "predict"

C27_MetricsOfRefreshedHistory ==
  [][\A w \in AnalyticsConsumers :
       Committed(w) =>
         LET row == RowOfCycle(cycle_analytics', cur[w].cycle_id)
         IN /\ row.average_cycle_length =
                 Some(calculate_average_cycle_length(cycle_analytics', row.user_id))
            /\ row.cycle_variance =
                 Some(calculate_cycle_variance(cycle_analytics', row.user_id))]_vars

RowCount(user_id) == Cardinality(UserRows(cycle_analytics, user_id))

\* C28: no Prediction exists for a user with fewer than two CycleAnalytics
\* rows: the consumer handler goes from the count straight to the ack, and
\* the generate route answers 400 with no Prediction deactivated or inserted
\* and no event published.
C28_NoPredictionBelowTwoRows ==
  /\ [](\A p \in predictions : RowCount(p.user_id) >= 2)
  /\ [][\A w \in AnalyticsConsumers :
          pc[w] = "predict" /\ RowCount(cur[w].user_id) < 2 /\ pc'[w] # "predict"
            => /\ pc'[w] \in {"ack", "nack"}
               /\ predictions' = predictions
               /\ prediction_queue' = prediction_queue]_vars
  /\ [][\A r \in GenerateWorkers :
          pc[r] = "g_count" /\ RowCount(req[r]) < 2 /\ pc'[r] # "g_count"
            => /\ outcome'[r] = "400"
               /\ pc'[r] = "idle"
               /\ predictions' = predictions
               /\ prediction_queue' = prediction_queue]_vars

C28_Witness ==
  /\ \E r \in GenerateWorkers : outcome[r] = "400"
  /\ \E w \in AnalyticsConsumers :
       pc[w] = "ack" /\ cur[w].kind = "ok" /\ RowCount(cur[w].user_id) = 1
  /\ predictions = {}

StoreErrorSeen(n) == \E k \in DOMAIN trail[n] : trail[n][k] = "raise_store"

\* C29: a delivery whose reminder creation raised a store error is settled
\* with a nack, never with an ack, and leaves no row of its own behind.
C29_StoreErrorIsNacked ==
  [][\A n \in NotificationConsumers :
       StoreErrorSeen(n) /\ pc'[n] = "idle" /\ pc[n] # "idle"
         => /\ Last(pred_settled'[cur[n].id]) = "nack"
            /\ \A r \in notifications : r.prediction_id # cur[n].prediction_id]_vars

Duplicate(w) == pc[w] # "idle" /\ prevMsg[w] = Body(cur[w])

\* C30: processing a cycle event again inserts no Prediction and publishes no
\* prediction event, and no two Notifications exist for the same user and
\* prediction id.
C30_DuplicateCreatesNothing ==
  /\ [][\A w \in AnalyticsConsumers :
          Duplicate(w) /\ pc'[w] # pc[w] =>
            /\ Cardinality(predictions') = Cardinality(predictions)
            /\ pred_published' = pred_published]_vars
  /\ [](\A a, b \in notifications :
          a.user_id = b.user_id /\ a.prediction_id = b.prediction_id => a = b)

\* C31: every message that is ready in the consumer's queue is eventually
\* handled to its settlement, also after an error in the consume loop.
C31_LoopResumes ==
  \A i \in 1..MaxPredictionEvents : Ready(i) ~> (pred_settled[i] # <<>>)

\* C32: no two request workers are publishing on the same publisher's
\* connection at the same time, and get_publisher has constructed at most
\* one publisher.
C32_ConnectionNotShared ==
  /\ \A t, u \in RequestWorkers :
       t # u /\ shared.at[t] = "publishing" /\ shared.at[u] = "publishing"
         => shared.using[t] # shared.using[u]
  /\ shared.created <= 1

InTrail(n, label) == \E k \in DOMAIN trail[n] : trail[n][k] = label

\* What a preference row created by a PUT may hold: the defaults, with the
\* keys of the request applied.
DefaultsWith(row, data) ==
  /\ row.period_reminder_enabled =
       (IF data.period_reminder_enabled = None THEN TRUE
        ELSE Val(data.period_reminder_enabled))
  /\ row.reminder_days_before =
       (IF data.reminder_days_before = None THEN 3
        ELSE Val(data.reminder_days_before))

PublishAttempted(w) == pc[w] = "publish" /\ pc'[w] # "publish"

\* C34: whether or not the prediction publisher connects and publishes, the
\* handler goes on to its ack with the committed CycleAnalytics row and the
\* new active Prediction in place.
C34_PublishFailureKeepsState ==
  /\ [][\A w \in AnalyticsConsumers :
          PublishAttempted(w) =>
            /\ pc'[w] = "ack"
            /\ cycle_analytics' = cycle_analytics
            /\ predictions' = predictions]_vars
  /\ [][\A w \in AnalyticsConsumers :
          pc[w] = "ack" /\ pc'[w] = "idle" /\ InTrail(w, "publish_attempt") =>
            /\ Last(settled'[cur[w].id]) = "ack"
            /\ RowsOfCycle(cycle_analytics', cur[w].cycle_id) # {}
            /\ \E p \in predictions' : p.user_id = cur[w].user_id /\ p.is_active]_vars

C34_Witness ==
  \E w \in AnalyticsConsumers :
    /\ pc[w] = "ack"
    /\ InTrail(w, "publish_attempt")
    /\ pred_published = 0
    /\ \E p \in predictions : p.user_id = cur[w].user_id /\ p.is_active

\* C35: the commit of the handler leaves the event's row with is_regular
\* true when its stored cycle_variance is below 5 and false otherwise,
\* variance 0 included.
C35_RegularIffVarianceBelowFive ==
  [][\A w \in AnalyticsConsumers :
       Committed(w) =>
         LET row == RowOfCycle(cycle_analytics', cur[w].cycle_id)
         IN row.is_regular = Some(Val(row.cycle_variance) < 5 * VarScale)]_vars

\* C36: a commit of the handler for an event whose cycle id already has a row
\* adds no row, leaves every other row as it was and keeps the row's id,
\* user_id, cycle_id and start_date; an event without end date leaves the
\* row's end_date and period_length as they were, and an event with one
\* leaves end_date = the event's and period_length = end - start + 1 days.
C36_UpdateKeepsIdentity ==
  [][\A w \in AnalyticsConsumers :
       LET m == cur[w]
           olds == {r \in cycle_analytics : r.cycle_id = m.cycle_id}
       IN Committed(w) /\ olds # {} =>
            /\ Cardinality(cycle_analytics') = Cardinality(cycle_analytics)
            /\ \E old \in olds, new \in cycle_analytics' :
                 /\ cycle_analytics' \ {new} = cycle_analytics \ {old}
                 /\ new.id = old.id
                 /\ new.user_id = old.user_id
                 /\ new.cycle_id = old.cycle_id
                 /\ new.start_date = old.start_date
                 /\ m.end_date = None =>
                      /\ new.end_date = old.end_date
                      /\ new.period_length = old.period_length
                 /\ m.end_date # None =>
                      /\ new.end_date = m.end_date
                      /\ new.period_length =
                           Some(Val(m.end_date) - old.start_date + 1)]_vars

\* The handler has committed the event of an update that ended a cycle, on
\* the row that the event of the cycle's creation left without end date.
C36_Witness ==
  \E w \in AnalyticsConsumers :
    /\ pc[w] = "predict"
    /\ cur[w].end_date # None
    /\ prevMsg[w].cycle_id = cur[w].cycle_id
    /\ prevMsg[w].end_date = None
    /\ \E r \in cycle_analytics :
         /\ r.cycle_id = cur[w].cycle_id
         /\ r.end_date = cur[w].end_date
         /\ r.period_length = Some(PeriodDays + 1)

\* The prediction a notification was created for is no longer the active one.
Superseded(r) ==
  \E p \in predictions : p.id = r.prediction_id /\ ~p.is_active


\* C37: a pending notification is changed by nothing but the send of a run
\* of process_pending_notifications that selected it, which keeps its
\* prediction_id and scheduled_for: neither a newer prediction nor the
\* reminder created for it touches it; a run selects every due pending
\* notification whose prediction has been superseded, and has moved it to
\* sent or failed when it returns.
C37_SupersededReminderStays ==
  /\ [][\A r \in notifications :
          r.status = "pending" =>
            \/ r \in notifications'
            \/ /\ sweep["s1"].at = "send"
               /\ sweep["s1"].todo # <<>>
               /\ Head(sweep["s1"].todo) = r.id
               /\ \E q \in notifications' :
                    /\ q.id = r.id
                    /\ Terminal(q)
                    /\ q.user_id = r.user_id
                    /\ q.prediction_id = r.prediction_id
                    /\ q.scheduled_for = r.scheduled_for]_vars
  /\ [][sweep["s1"].at = "idle" /\ sweep'["s1"].at = "send" =>
          \A r \in notifications :
            r.status = "pending" /\ r.scheduled_for <= today /\ Superseded(r)
              => r.id \in {sweep'["s1"].todo[i] : i \in DOMAIN sweep'["s1"].todo}]_vars
  /\ [](Returned("s1") =>
          \A r \in sweep["s1"].start :
            WasDue("s1", r) /\ Superseded(r) => Terminal(RowOf(r.id)))

\* A run has returned that found two pending reminders of one user, for two
\* predictions, and sent the one of the superseded prediction.
C37_Witness ==
  /\ Returned("s1")
  /\ \E r, q \in sweep["s1"].start :
       /\ r.user_id = q.user_id
       /\ r.prediction_id # q.prediction_id
       /\ r.status = "pending" /\ q.status = "pending"
       /\ Superseded(r)
       /\ RowOf(r.id).status = "sent"
       /\ RowOf(r.id).sent_at = Some(sweep["s1"].run)

\* Run s delivers the notification at the head of its list in this step.
Delivers(s) ==
  /\ sweep[s].at = "send"
  /\ sweep[s].todo # <<>>
  /\ sweep'[s].todo = Tail(sweep[s].todo)

\* C38: with calls of process_pending_notifications running concurrently, a
\* run delivers a notification only while it is still pending, so that no
\* notification is delivered by two runs.
C38_DeliveredAtMostOnce ==
  [][\A s \in SweepWorkers :
       Delivers(s) => RowOf(Head(sweep[s].todo)).status = "pending"]_vars

\* The broker connections the analytics service's publishers have open.
OpenPublisherConnections ==
  abandoned + (IF pub_connection["publish_prediction"] = "open" THEN 1 ELSE 0)

\* C39: however many prediction events the analytics service has published,
\* it has no publisher connection open besides the one of the publish in
\* progress: a connection the callback opened is closed when it is done.
C39_PublisherConnectionsBounded == OpenPublisherConnections <= 1

=============================================================================
